---- MODULE Spec2Model ----
(***************************************************************************)
(* Model of the IRR calculation engine of the real-estate IRR calculator   *)
(* (src/src/utils/storage.ts, the calculation part): calculateNPV,         *)
(* calculateNPVDerivative, calculateIRR, mightHaveMultipleIRRSolutions,    *)
(* projectToCashFlowArray and calculateProjectIRR.                         *)
(*                                                                         *)
(* Numbers.  A JavaScript number is an IEEE-754 double.  The model keeps   *)
(* the structure of that arithmetic (a signed mantissa and an exponent,    *)
(* every operation rounded to the mantissa width, division by zero giving  *)
(* an infinity or NaN, NaN comparing false with everything) in radix 10    *)
(* with a mantissa of four decimal digits.  The exponent is not bounded,   *)
(* there is no negative zero, and rounding is half away from zero.         *)
(***************************************************************************)
EXTENDS Integers, Sequences, FiniteSets, TLC

\* null / undefined.  Every value that may be absent is a record, so that it
\* can be compared with Null; an array is the record Arr(s) of its items.
Null == [null |-> TRUE]
Arr(s) == [items |-> s]

MantLimit == 10 * 10 * 10 * 10      \* mantissas are below 10^4 in magnitude

NaN == [k |-> "nan", m |-> 0, e |-> 0]
Inf(s) == [k |-> "inf", m |-> s, e |-> 0]
Zero == [k |-> "fin", m |-> 0, e |-> 0]

AbsInt(i) == IF i < 0 THEN -i ELSE i
SgnInt(i) == IF i < 0 THEN -1 ELSE IF i > 0 THEN 1 ELSE 0

RECURSIVE Pow10(_)
Pow10(n) == IF n = 0 THEN 1 ELSE 10 * Pow10(n - 1)

\* number of low digits of a > 0 that do not fit the mantissa
RECURSIVE Excess(_)
Excess(a) == IF a < MantLimit THEN 0 ELSE 1 + Excess(a \div 10)

\* canonical form of a > 0 at exponent e: no trailing zero digit
RECURSIVE Strip(_, _)
Strip(a, e) == IF a % 10 = 0 THEN Strip(a \div 10, e + 1) ELSE <<a, e>>

\* a > 0 at exponent e with the mantissa shifted left to four digits
RECURSIVE Justify(_, _)
Justify(a, e) == IF a * 10 < MantLimit THEN Justify(a * 10, e - 1) ELSE <<a, e>>

\* the number nearest to m * 10^e
Norm(m, e) ==
    IF m = 0 THEN Zero
    ELSE LET a == AbsInt(m)
             x == Excess(a)
             r == (a + (Pow10(x) \div 2)) \div Pow10(x)
             s == Strip(r, e + x)
         IN  [k |-> "fin", m |-> SgnInt(m) * s[1], e |-> s[2]]

FromInt(i) == Norm(i, 0)
One == FromInt(1)

Neg(x) == [x EXCEPT !.m = -x.m]
Abs(x) == [x EXCEPT !.m = AbsInt(x.m)]

\* mh * 10^eh + ml * 10^el for justified mantissas, eh >= el
AddAligned(mh, eh, ml, el) ==
    IF eh - el > 5 THEN Norm(mh, eh) ELSE Norm(mh * Pow10(eh - el) + ml, el)

Add(x, y) ==
    IF x.k = "nan" \/ y.k = "nan" THEN NaN
    ELSE IF x.k = "inf" THEN (IF y.k = "inf" /\ y.m # x.m THEN NaN ELSE x)
    ELSE IF y.k = "inf" THEN y
    ELSE IF x.m = 0 THEN y
    ELSE IF y.m = 0 THEN x
    ELSE LET jx == Justify(AbsInt(x.m), x.e)
             jy == Justify(AbsInt(y.m), y.e)
         IN  IF jx[2] >= jy[2]
             THEN AddAligned(SgnInt(x.m) * jx[1], jx[2], SgnInt(y.m) * jy[1], jy[2])
             ELSE AddAligned(SgnInt(y.m) * jy[1], jy[2], SgnInt(x.m) * jx[1], jx[2])

Sub(x, y) == Add(x, Neg(y))

Mul(x, y) ==
    IF x.k = "nan" \/ y.k = "nan" THEN NaN
    ELSE IF x.k = "inf" \/ y.k = "inf"
         THEN (IF x.m = 0 \/ y.m = 0 THEN NaN ELSE Inf(SgnInt(x.m) * SgnInt(y.m)))
    ELSE Norm(x.m * y.m, x.e + y.e)

Div(x, y) ==
    IF x.k = "nan" \/ y.k = "nan" THEN NaN
    ELSE IF x.k = "inf"
         THEN (IF y.k = "inf" THEN NaN
               ELSE Inf(IF y.m < 0 THEN -x.m ELSE x.m))
    ELSE IF y.k = "inf" THEN Zero
    ELSE IF y.m = 0 THEN (IF x.m = 0 THEN NaN ELSE Inf(SgnInt(x.m)))
    ELSE IF x.m = 0 THEN Zero
    ELSE LET jx == Justify(AbsInt(x.m), x.e)
             q  == (jx[1] * MantLimit) \div AbsInt(y.m)
         IN  Norm(SgnInt(x.m) * SgnInt(y.m) * q, jx[2] - 4 - y.e)

\* x < y as JavaScript compares numbers: false when either is NaN
Less(x, y) == LET d == Sub(x, y) IN d.k # "nan" /\ d.m < 0

Dec(m, e) == Norm(m, e)             \* the decimal literal m * 10^e

(***************************************************************************)
(* calculateNPV, calculateNPVDerivative                                    *)
(***************************************************************************)
Throw == [throw |-> TRUE]           \* the call threw an Error

\* Math.pow(x, index) is the rounded product of index factors x.  Both reduce
\* loops carry it from one index to the next in `power` instead of multiplying
\* it out again for every entry.

\* cashFlows.reduce from position i (index i - 1) on, npv so far in acc and
\* power = Math.pow(1 + rate, index)
RECURSIVE ReduceNPV(_, _, _, _, _)
ReduceNPV(items, x, i, power, acc) ==
    IF i > Len(items) THEN acc
    ELSE ReduceNPV(items, x, i + 1, Mul(power, x), Add(acc, Div(items[i], power)))

calculateNPVSkippingFirst(cashFlows, r) ==
    IF cashFlows = Null \/ Len(cashFlows.items) = 0 THEN Throw
    ELSE ReduceNPV(cashFlows.items, Add(One, r), 2, Add(One, r), Zero)
calculateNPV(cashFlows, r) ==
    IF cashFlows = Null \/ Len(cashFlows.items) = 0 THEN Throw
    ELSE ReduceNPV(cashFlows.items, Add(One, r), 1, One, Zero)

\* the same for the derivative, power = Math.pow(1 + rate, index + 1); the
\* entry of index 0 is skipped
RECURSIVE ReduceDerivative(_, _, _, _, _)
ReduceDerivative(items, x, i, power, acc) ==
    IF i > Len(items) THEN acc
    ELSE ReduceDerivative(
             items, x, i + 1, Mul(power, x),
             IF i = 1 THEN acc
             ELSE Sub(acc, Div(Mul(FromInt(i - 1), items[i]), power)))

calculateNPVDerivativeUnguarded(cashFlows, r) ==
    IF cashFlows = Null THEN Throw
    ELSE ReduceDerivative(cashFlows.items, Add(One, r), 1, Add(One, r), Zero)
calculateNPVDerivative(cashFlows, r) ==
    IF cashFlows = Null \/ Len(cashFlows.items) = 0 THEN Throw
    ELSE ReduceDerivative(cashFlows.items, Add(One, r), 1, Add(One, r), Zero)

(***************************************************************************)
(* calculateIRR: results, seeds and one pass through the do-while body     *)
(***************************************************************************)
CalcError(msg, sev) == [type |-> "calculation", message |-> msg, severity |-> sev]

InsufficientData ==
    CalcError("Insufficient data for IRR calculation. Need at least initial investment and one cash flow.", "error")
InvalidCashFlowSign ==
    CalcError("IRR calculation requires both positive and negative cash flows.", "error")
ConvergenceFailure ==
    CalcError("IRR calculation failed to converge with any initial guess.", "error")
MultipleSolutions ==
    CalcError("Multiple IRR solutions may exist. The calculated value may not be the only solution.", "warning")
MissingProjectData ==
    CalcError("IRR calculation error: Missing required project data", "error")

FailureWithNpv(err) == [irr |-> Null, npv |-> Zero, error |-> err]
Failure(err) == [irr |-> Null, npv |-> Null, error |-> err]

hasPositiveOrZero(cashFlows) ==
    \E i \in 1..Len(cashFlows.items) : ~Less(cashFlows.items[i], Zero)
hasPositive(cashFlows) ==
    \E i \in 1..Len(cashFlows.items) : Less(Zero, cashFlows.items[i])
hasNegative(cashFlows) ==
    \E i \in 1..Len(cashFlows.items) : Less(cashFlows.items[i], Zero)

guessesWithoutLast(g) ==
    << g, Dec(1, -2), Dec(5, -2), Dec(1, -1), Dec(15, -2), Dec(2, -1),
       Dec(25, -2), Dec(3, -1), Dec(5, -1), Dec(75, -2) >>
guesses(g) ==
    << g, Dec(1, -2), Dec(5, -2), Dec(1, -1), Dec(15, -2), Dec(2, -1),
       Dec(25, -2), Dec(3, -1), Dec(5, -1), Dec(75, -2), One >>

RateFloor == FromInt(-1)
RateCeiling == FromInt(100)

\* the npv field of the result returned on convergence; v is the local npv,
\* the value at the rate before the last step
ConvergedNPVStale(cashFlows, nextRate, v) == v
ConvergedNPV(cashFlows, nextRate, v) == calculateNPV(cashFlows, nextRate)

\* One pass through the body of the do-while loop at rate r: how it ends
\* ("catch": an evaluation threw; "derivative", "range": a break; "return":
\* convergence; "continue": the end of the body is reached), nextRate, the
\* local npv, and the npv field returned on convergence.
NewtonStep(cashFlows, r, prec) ==
    LET v == calculateNPV(cashFlows, r)
        derivative == calculateNPVDerivative(cashFlows, r)
    IN  IF v = Throw \/ derivative = Throw
        THEN [kind |-> "catch", rate |-> r, npv |-> Zero, out |-> Null]
        ELSE IF Less(Abs(derivative), prec)
        THEN [kind |-> "derivative", rate |-> r, npv |-> v, out |-> Null]
        ELSE LET nextRate == Sub(r, Div(v, derivative))
             IN  IF Less(Abs(Sub(nextRate, r)), prec)
                 THEN [kind |-> "return", rate |-> nextRate, npv |-> v,
                       out |-> ConvergedNPV(cashFlows, nextRate, v)]
                 ELSE IF Less(nextRate, RateFloor) \/ Less(RateCeiling, nextRate)
                 THEN [kind |-> "range", rate |-> nextRate, npv |-> v, out |-> Null]
                 ELSE [kind |-> "continue", rate |-> nextRate, npv |-> v, out |-> Null]

(***************************************************************************)
(* mightHaveMultipleIRRSolutions                                           *)
(***************************************************************************)
\* Math.sign
MathSign(x) ==
    IF x.k = "nan" THEN "NaN"
    ELSE IF x.m < 0 THEN "-1" ELSE IF x.m > 0 THEN "1" ELSE "0"

\* a !== b on results of Math.sign: NaN differs from everything
SignDiffers(a, b) == a = "NaN" \/ b = "NaN" \/ a # b

\* the for loop from index i - 1 on
RECURSIVE CountSignChangesResetting(_, _, _, _)
CountSignChangesResetting(items, i, previousSign, signChanges) ==
    IF i > Len(items) THEN signChanges
    ELSE LET currentSign == MathSign(items[i])
         IN  CountSignChangesResetting(
                 items, i + 1, currentSign,
                 IF /\ SignDiffers(currentSign, "0")
                    /\ SignDiffers(previousSign, "0")
                    /\ SignDiffers(currentSign, previousSign)
                 THEN signChanges + 1 ELSE signChanges)

RECURSIVE CountSignChanges(_, _, _, _)
CountSignChanges(items, i, previousSign, signChanges) ==
    IF i > Len(items) THEN signChanges
    ELSE LET currentSign == MathSign(items[i])
         IN  CountSignChanges(
                 items, i + 1,
                 IF SignDiffers(currentSign, "0") THEN currentSign ELSE previousSign,
                 IF /\ SignDiffers(currentSign, "0")
                    /\ SignDiffers(previousSign, "0")
                    /\ SignDiffers(currentSign, previousSign)
                 THEN signChanges + 1 ELSE signChanges)

mightHaveMultipleIRRSolutions(cashFlows) ==
    IF cashFlows = Null \/ Len(cashFlows.items) < 3 THEN FALSE
    ELSE CountSignChanges(cashFlows.items, 2, MathSign(cashFlows.items[1]), 0) > 1

(***************************************************************************)
(* The factory functions and projectToCashFlowArray                        *)
(***************************************************************************)
calculateTotalInitialInvestment(purchasePrice, closingCosts, renovationCosts, otherUpfrontExpenses) ==
    Add(Add(Add(purchasePrice, closingCosts), renovationCosts), otherUpfrontExpenses)

calculateNetCashFlow(rentalIncome, operatingExpenses, debtService, vacancyLoss) ==
    Sub(Sub(Sub(rentalIncome, operatingExpenses), debtService), vacancyLoss)

calculateNetSaleProceeds(estimatedSalePrice, sellingCosts) ==
    Sub(estimatedSalePrice, sellingCosts)

createInitialInvestment(purchasePrice, closingCosts, renovationCosts, otherUpfrontExpenses) ==
    [purchasePrice |-> purchasePrice, closingCosts |-> closingCosts,
     renovationCosts |-> renovationCosts,
     otherUpfrontExpenses |-> otherUpfrontExpenses,
     total |-> calculateTotalInitialInvestment(
                   purchasePrice, closingCosts, renovationCosts, otherUpfrontExpenses)]

createCashFlow(period, periodType, rentalIncome, operatingExpenses, debtService, vacancyLoss) ==
    [period |-> period, periodType |-> periodType, rentalIncome |-> rentalIncome,
     operatingExpenses |-> operatingExpenses, debtService |-> debtService,
     vacancyLoss |-> vacancyLoss,
     netCashFlow |-> calculateNetCashFlow(
                         rentalIncome, operatingExpenses, debtService, vacancyLoss)]

createSaleProceeds(estimatedSalePrice, sellingCosts, holdingPeriod, holdingPeriodType) ==
    [estimatedSalePrice |-> estimatedSalePrice, sellingCosts |-> sellingCosts,
     netProceeds |-> calculateNetSaleProceeds(estimatedSalePrice, sellingCosts),
     holdingPeriod |-> holdingPeriod, holdingPeriodType |-> holdingPeriodType]

\* [...cashFlows].sort((a, b) => a.period - b.period): a stable sort
RECURSIVE InsertByPeriod(_, _)
InsertByPeriod(s, cf) ==
    IF s = <<>> THEN <<cf>>
    ELSE IF s[Len(s)].period <= cf.period THEN Append(s, cf)
    ELSE Append(InsertByPeriod(SubSeq(s, 1, Len(s) - 1), cf), s[Len(s)])

RECURSIVE SortByPeriod(_)
SortByPeriod(s) ==
    IF s = <<>> THEN s
    ELSE InsertByPeriod(SortByPeriod(SubSeq(s, 1, Len(s) - 1)), s[Len(s)])

\* groupedCashFlows.get(period) || 0: an absent key, 0 and NaN all give 0
GetOrZero(grouped, period) ==
    IF period \notin DOMAIN grouped THEN Zero
    ELSE IF grouped[period].k = "nan" \/ grouped[period].m = 0 THEN Zero
    ELSE grouped[period]

\* groupedCashFlows.set(period, (groupedCashFlows.get(period) || 0) + amount)
AccumulateOverwriting(grouped, period, amount) ==
    [p \in (DOMAIN grouped) \cup {period} |->
        IF p = period THEN amount ELSE grouped[p]]
Accumulate(grouped, period, amount) ==
    [p \in (DOMAIN grouped) \cup {period} |->
        IF p = period THEN Add(GetOrZero(grouped, period), amount) ELSE grouped[p]]

\* the annual entry cf spread over months i + 1 .. 12 of its year
RECURSIVE SpreadOverYearUndivided(_, _, _)
SpreadOverYearUndivided(grouped, cf, i) ==
    IF i >= 12 THEN grouped
    ELSE SpreadOverYearUndivided(
             Accumulate(grouped, (cf.period - 1) * 12 + i + 1, cf.netCashFlow),
             cf, i + 1)

RECURSIVE SpreadOverYear(_, _, _)
SpreadOverYear(grouped, cf, i) ==
    IF i >= 12 THEN grouped
    ELSE SpreadOverYear(
             Accumulate(grouped, (cf.period - 1) * 12 + i + 1,
                        Div(cf.netCashFlow, FromInt(12))),
             cf, i + 1)

\* Math.ceil(n / 12) for an integer n
CeilDiv12(n) == -((-n) \div 12)

\* the body of standardizedCashFlows.forEach for one entry
GroupOneAggregating(grouped, cf, isMonthly) ==
    IF cf.periodType = "monthly"
    THEN Accumulate(grouped, CeilDiv12(cf.period), cf.netCashFlow)
    ELSE IF isMonthly THEN SpreadOverYear(grouped, cf, 0)
    ELSE Accumulate(grouped, cf.period, cf.netCashFlow)
GroupOne(grouped, cf, isMonthly) ==
    IF isMonthly /\ cf.periodType = "annual" THEN SpreadOverYear(grouped, cf, 0)
    ELSE IF ~isMonthly /\ cf.periodType = "monthly"
    THEN Accumulate(grouped, CeilDiv12(cf.period), cf.netCashFlow)
    ELSE Accumulate(grouped, cf.period, cf.netCashFlow)

\* standardizedCashFlows.forEach over the first n entries
RECURSIVE GroupAll(_, _, _)
GroupAll(sorted, isMonthly, n) ==
    IF n = 0 THEN << >>
    ELSE GroupOne(GroupAll(sorted, isMonthly, n - 1), sorted[n], isMonthly)

\* Math.max(...groupedCashFlows.keys()) as the last index the loop visits:
\* with no key it is -Infinity and the loop body never runs
MaxKey(grouped) ==
    IF DOMAIN grouped = {} THEN 0
    ELSE CHOOSE p \in DOMAIN grouped : \A q \in DOMAIN grouped : q <= p

\* A holding period is a number: the field holdingPeriod holds its whole part,
\* and a sale record with the field holdingPeriodHalf stands for the holding
\* period holdingPeriod + 1/2.
HasHalf(saleProceeds) == "holdingPeriodHalf" \in DOMAIN saleProceeds

\* the whole part of the sale's holding period in the unit of the series:
\* Math.ceil((n + 1/2) / 12) = Math.ceil((n + 1) / 12) and (n + 1/2) * 12 = 12n + 6
StandardHoldingPeriodUnconverted(saleProceeds, isMonthly) == saleProceeds.holdingPeriod
StandardHoldingPeriod(saleProceeds, isMonthly) ==
    IF saleProceeds.holdingPeriodType = "months" /\ ~isMonthly
    THEN CeilDiv12(saleProceeds.holdingPeriod + (IF HasHalf(saleProceeds) THEN 1 ELSE 0))
    ELSE IF saleProceeds.holdingPeriodType = "years" /\ isMonthly
    THEN saleProceeds.holdingPeriod * 12 + (IF HasHalf(saleProceeds) THEN 6 ELSE 0)
    ELSE saleProceeds.holdingPeriod

\* the holding period in the unit of the series is an integer, an index of
\* the array
HoldingPeriodIsIndex(saleProceeds, isMonthly) ==
    \/ ~HasHalf(saleProceeds)
    \/ saleProceeds.holdingPeriodType = "months" /\ ~isMonthly
    \/ saleProceeds.holdingPeriodType = "years" /\ isMonthly

\* [...cashFlows].sort(...) sorts a copy: the caller's list after the call
CallerListSorted(items) == SortByPeriod(items)
CallerListAfter(items) == items

\* cashFlows.some(cf => cf.periodType === 'monthly')
EveryMonthly(items) ==
    items # << >> /\ \A i \in 1..Len(items) : items[i].periodType = "monthly"
SomeMonthly(items) == \E i \in 1..Len(items) : items[i].periodType = "monthly"

\* result[holdingPeriod] += saleProceeds.netProceeds
PlaceSale(series, holdingPeriod, netProceeds) ==
    [series EXCEPT ![holdingPeriod + 1] = Add(@, netProceeds)]

projectToCashFlowArray(initialInvestment, cashFlows, saleProceeds) ==
    IF initialInvestment = Null \/ cashFlows = Null \/ saleProceeds = Null
    THEN Throw
    ELSE LET isMonthly == SomeMonthly(cashFlows.items)
             standardizedCashFlows == SortByPeriod(cashFlows.items)
             groupedCashFlows ==
                 GroupAll(standardizedCashFlows, isMonthly, Len(standardizedCashFlows))
             maxPeriod == MaxKey(groupedCashFlows)
             filled ==
                 <<Neg(initialInvestment.total)>> \o
                 [i \in 1..maxPeriod |-> GetOrZero(groupedCashFlows, i)]
             holdingPeriod == StandardHoldingPeriod(saleProceeds, isMonthly)
             missing ==
                 IF Len(filled) <= holdingPeriod
                 THEN holdingPeriod + 1 - Len(filled) ELSE 0
             padded == filled \o [i \in 1..missing |-> Zero]
         IN  \* result[holdingPeriod] += netProceeds with a holdingPeriod that is
             \* not an integer sets a property of the array that is none of its
             \* elements
             IF HoldingPeriodIsIndex(saleProceeds, isMonthly)
             THEN Arr(PlaceSale(padded, holdingPeriod, saleProceeds.netProceeds))
             ELSE Arr(padded)

(***************************************************************************)
(* Serialization (utils/serialization.ts).  A plain object read from       *)
(* storage is a record whose fields hold any JavaScript value: a number,   *)
(* undefined (also a missing key), null, a string or a boolean.  A Date is *)
(* the record of its instant, an ISO string the record of the instant it   *)
(* denotes.                                                                *)
(***************************************************************************)
Undefined == [undefined |-> TRUE]
Str(s) == [str |-> s]
Bool(b) == [bool |-> b]
DateAt(t) == [time |-> t]
IsoOf(t) == [iso |-> t]
InvalidDate == [time |-> Null]

IsNumber(v) == "k" \in DOMAIN v

\* the numeric value of a string: StringToNumber, for the strings of the model
StringToNumber(str) ==
    IF str = "" THEN Zero
    ELSE IF str = "12" THEN FromInt(12)
    ELSE NaN

\* Number(v)
ToNumber(v) ==
    IF IsNumber(v) THEN v
    ELSE IF v = Undefined THEN NaN
    ELSE IF v = Null THEN Zero
    ELSE IF "bool" \in DOMAIN v THEN (IF v.bool THEN One ELSE Zero)
    ELSE IF "str" \in DOMAIN v THEN StringToNumber(v.str)
    ELSE NaN

\* x || d for a number x: d when x is 0 or NaN
OrElse(x, d) == IF x.k = "nan" \/ x.m = 0 THEN d ELSE x

\* Number(v) || 0
NumberOrZero(v) == OrElse(ToNumber(v), Zero)

\* Number(n) || 1 for a period or holding period n, which the model keeps as
\* an integer
NumberOrOne(n) == IF n = 0 THEN 1 ELSE n

serializeDate(date) == IsoOf(date.time)

deserializeDate(dateString) ==
    IF "iso" \in DOMAIN dateString THEN DateAt(dateString.iso) ELSE InvalidDate

serializeInitialInvestment(investment) ==
    [purchasePrice |-> investment.purchasePrice,
     closingCosts |-> investment.closingCosts,
     renovationCosts |-> investment.renovationCosts,
     otherUpfrontExpenses |-> investment.otherUpfrontExpenses,
     total |-> calculateTotalInitialInvestment(
                   investment.purchasePrice, investment.closingCosts,
                   investment.renovationCosts, investment.otherUpfrontExpenses)]

\* the total field after the recalculation
RecalculatedTotalStored(data, investment) == NumberOrZero(data.total)
RecalculatedTotal(data, investment) ==
    calculateTotalInitialInvestment(
        investment.purchasePrice, investment.closingCosts,
        investment.renovationCosts, investment.otherUpfrontExpenses)

deserializeInitialInvestment(data) ==
    LET investment ==
            [purchasePrice |-> NumberOrZero(data.purchasePrice),
             closingCosts |-> NumberOrZero(data.closingCosts),
             renovationCosts |-> NumberOrZero(data.renovationCosts),
             otherUpfrontExpenses |-> NumberOrZero(data.otherUpfrontExpenses),
             total |-> NumberOrZero(data.total)]
    IN  [investment EXCEPT !.total = RecalculatedTotal(data, investment)]

serializeCashFlow(cashFlow) ==
    [period |-> cashFlow.period,
     periodType |-> cashFlow.periodType,
     rentalIncome |-> cashFlow.rentalIncome,
     operatingExpenses |-> cashFlow.operatingExpenses,
     debtService |-> cashFlow.debtService,
     vacancyLoss |-> cashFlow.vacancyLoss,
     netCashFlow |-> calculateNetCashFlow(
                         cashFlow.rentalIncome, cashFlow.operatingExpenses,
                         cashFlow.debtService, cashFlow.vacancyLoss)]

deserializeCashFlow(data) ==
    LET cashFlow ==
            [period |-> NumberOrOne(data.period),
             periodType |-> IF data.periodType = "monthly" THEN "monthly" ELSE "annual",
             rentalIncome |-> NumberOrZero(data.rentalIncome),
             operatingExpenses |-> NumberOrZero(data.operatingExpenses),
             debtService |-> NumberOrZero(data.debtService),
             vacancyLoss |-> NumberOrZero(data.vacancyLoss),
             netCashFlow |-> NumberOrZero(data.netCashFlow)]
    IN  [cashFlow EXCEPT !.netCashFlow =
            calculateNetCashFlow(cashFlow.rentalIncome, cashFlow.operatingExpenses,
                                 cashFlow.debtService, cashFlow.vacancyLoss)]

serializeSaleProceeds(saleProceeds) ==
    [estimatedSalePrice |-> saleProceeds.estimatedSalePrice,
     sellingCosts |-> saleProceeds.sellingCosts,
     netProceeds |-> calculateNetSaleProceeds(
                         saleProceeds.estimatedSalePrice, saleProceeds.sellingCosts),
     holdingPeriod |-> saleProceeds.holdingPeriod,
     holdingPeriodType |-> saleProceeds.holdingPeriodType]

deserializeSaleProceeds(data) ==
    LET saleProceeds ==
            [estimatedSalePrice |-> NumberOrZero(data.estimatedSalePrice),
             sellingCosts |-> NumberOrZero(data.sellingCosts),
             netProceeds |-> NumberOrZero(data.netProceeds),
             holdingPeriod |-> NumberOrOne(data.holdingPeriod),
             holdingPeriodType |->
                 IF data.holdingPeriodType = "months" THEN "months" ELSE "years"]
    IN  [saleProceeds EXCEPT !.netProceeds =
            calculateNetSaleProceeds(saleProceeds.estimatedSalePrice,
                                     saleProceeds.sellingCosts)]

\* project.description || '': undefined and '' both give ''
DescriptionOrEmpty(description) ==
    IF description = Undefined \/ description = Str("") THEN Str("") ELSE description

serializeProject(project) ==
    [id |-> project.id,
     name |-> project.name,
     description |-> DescriptionOrEmpty(project.description),
     createdAt |-> serializeDate(project.createdAt),
     updatedAt |-> serializeDate(project.updatedAt),
     initialInvestment |-> serializeInitialInvestment(project.initialInvestment),
     cashFlows |->
         Arr([i \in 1..Len(project.cashFlows.items) |->
                 serializeCashFlow(project.cashFlows.items[i])]),
     saleProceeds |-> serializeSaleProceeds(project.saleProceeds),
     calculatedIRR |-> project.calculatedIRR,
     calculatedNPV |-> project.calculatedNPV]

\* data.x !== undefined ? Number(data.x) : undefined
NumberIfDefinedDropping(v) == Undefined
NumberIfDefined(v) == IF v # Undefined THEN ToNumber(v) ELSE Undefined

deserializeProject(data) ==
    [id |-> data.id,
     name |-> data.name,
     description |-> data.description,
     createdAt |-> deserializeDate(data.createdAt),
     updatedAt |-> deserializeDate(data.updatedAt),
     initialInvestment |-> deserializeInitialInvestment(data.initialInvestment),
     cashFlows |->
         IF "items" \in DOMAIN data.cashFlows
         THEN Arr([i \in 1..Len(data.cashFlows.items) |->
                      deserializeCashFlow(data.cashFlows.items[i])])
         ELSE Arr(<< >>),
     saleProceeds |-> deserializeSaleProceeds(data.saleProceeds),
     calculatedIRR |-> NumberIfDefined(data.calculatedIRR),
     calculatedNPV |-> NumberIfDefined(data.calculatedNPV)]

(***************************************************************************)
(* ProjectStorage (utils/storage.ts).  localStorage holds, under the one   *)
(* key the class uses, nothing (Null) or a JSON array of serialized        *)
(* projects.  env is the state of the browser's storage during a call:     *)
(* "ok", "unavailable" (the probe of isLocalStorageAvailable fails) or     *)
(* "quota" (the probe succeeds and the write of the list fails).           *)
(***************************************************************************)
\* new Error(message)
ErrorOf(message) == [message |-> message]
SaveFailed == ErrorOf("Failed to save project to local storage")
DeleteFailed == ErrorOf("Failed to delete project from local storage")

createProject(id, name, description, t) ==
    [id |-> id, name |-> name, description |-> description,
     createdAt |-> DateAt(t), updatedAt |-> DateAt(t),
     initialInvestment |-> createInitialInvestment(Zero, Zero, Zero, Zero),
     cashFlows |-> Arr(<< createCashFlow(1, "annual", Zero, Zero, Zero, Zero) >>),
     saleProceeds |-> createSaleProceeds(Zero, Zero, 1, "years"),
     calculatedIRR |-> Undefined, calculatedNPV |-> Undefined]

\* JSON.parse(JSON.stringify(v)) of a field: NaN and the infinities are written
\* as null; a key holding undefined is left out and reads as undefined again
JsonValue(v) == IF IsNumber(v) /\ v.k # "fin" THEN Null ELSE v

JsonRecord(r) == [f \in DOMAIN r |-> JsonValue(r[f])]

\* JSON.parse(JSON.stringify(data)) of a serialized project
JsonProject(data) ==
    [data EXCEPT
        !.initialInvestment = JsonRecord(@),
        !.cashFlows = Arr([i \in 1..Len(@.items) |->
                              [@.items[i] EXCEPT
                                  !.rentalIncome = JsonValue(@),
                                  !.operatingExpenses = JsonValue(@),
                                  !.debtService = JsonValue(@),
                                  !.vacancyLoss = JsonValue(@),
                                  !.netCashFlow = JsonValue(@)]]),
        !.saleProceeds = [@ EXCEPT !.estimatedSalePrice = JsonValue(@),
                                   !.sellingCosts = JsonValue(@),
                                   !.netProceeds = JsonValue(@)],
        !.calculatedIRR = JsonValue(@),
        !.calculatedNPV = JsonValue(@)]

\* JSON.stringify(projects.map(serializeProject)) as localStorage keeps it
StoredList(list) ==
    Arr([i \in 1..Len(list) |-> JsonProject(serializeProject(list[i]))])

loadAllProjects(stored, env) ==
    IF env = "unavailable" THEN Throw
    ELSE IF stored = Null THEN Arr(<< >>)
    ELSE Arr([i \in 1..Len(stored.items) |-> deserializeProject(stored.items[i])])

\* projects.findIndex(p => p.id === id), from 1; 0 when there is none
FindIndex(list, id) ==
    IF \E i \in 1..Len(list) : list[i].id = id
    THEN CHOOSE i \in 1..Len(list) :
             list[i].id = id /\ \A j \in 1..(i - 1) : list[j].id # id
    ELSE 0

\* the list saveProject writes: the entry replaced in place, or appended
SavedListAppending(list, idx, project) == Append(list, project)
SavedList(list, idx, project) ==
    IF idx > 0 THEN [list EXCEPT ![idx] = project] ELSE Append(list, project)

\* saveProject(project) at instant t: whether it threw, what localStorage
\* holds afterwards, and the argument, which the call may have stamped
saveProject(stored, project, t, env) ==
    LET Stamped(existingIndex) ==
            IF existingIndex > 0
            THEN [project EXCEPT !.updatedAt = DateAt(t)]
            ELSE project
        Write(items, existingIndex, stamped) ==
            IF env = "quota"
            THEN [threw |-> SaveFailed, storage |-> stored, project |-> stamped]
            ELSE [threw |-> Null,
                  storage |-> StoredList(SavedList(items, existingIndex, stamped)),
                  project |-> stamped]
        Replace(items, existingIndex) ==
            Write(items, existingIndex, Stamped(existingIndex))
        Save(loaded) ==
            IF loaded = Throw
            THEN [threw |-> SaveFailed, storage |-> stored, project |-> project]
            ELSE Replace(loaded.items, FindIndex(loaded.items, project.id))
    IN  Save(loadAllProjects(stored, env))

\* projects.filter(p => p.id !== id)
WithoutId(list, id) == SelectSeq(list, LAMBDA p : p.id # id)

deleteProject(stored, id, env) ==
    LET Delete(loaded) ==
            IF loaded = Throw \/ env = "quota"
            THEN [threw |-> DeleteFailed, storage |-> stored]
            ELSE [threw |-> Null,
                  storage |-> StoredList(WithoutId(loaded.items, id))]
    IN  Delete(loadAllProjects(stored, env))

\* loadProject(id): the project, Null, or Throw
loadProject(stored, id, env) ==
    LET Find(items, idx) == IF idx = 0 THEN Null ELSE items[idx]
        Load(loaded) ==
            IF loaded = Throw THEN Throw
            ELSE Find(loaded.items, FindIndex(loaded.items, id))
    IN  Load(loadAllProjects(stored, env))

(***************************************************************************)
(* The calls: calculateIRR and calculateProjectIRR as a state machine.     *)
(* A behaviour is one call: its arguments are chosen when it starts, every *)
(* pass through the do-while body of calculateIRR is one step.             *)
(***************************************************************************)
MaxLen == 3            \* longest series passed to calculateIRR directly
MaxIter == 3           \* largest maxIterations argument
MaxFlows == 2          \* longest cashFlows list of a project
MaxPeriod == 2         \* largest period of a cash-flow entry
MaxHolding == 2        \* largest holding period of a sale
LongHolding == 13      \* a holding period of more than a year, in months
MaxOrderFlows == 3     \* longest cashFlows list whose entries are reordered
MaxSigns == 4          \* longest series passed to mightHaveMultipleIRRSolutions directly
MaxRoundTripFlows == 2 \* longest cashFlows list of a serialized project
MaxIds == 2            \* number of ids generateId gives
MaxClock == 1          \* the last instant of the clock

\* the ids generateId gives
Ids == 1..MaxIds

DefaultInitialGuess == Dec(1, -1)
DefaultMaxIterations == 100
DefaultPrecision == Dec(1, -7)

\* all sequences over S of length 0..n
RECURSIVE SeqsUpTo(_, _)
SeqsUpTo(S, n) ==
    IF n = 0 THEN { << >> }
    ELSE LET shorter == SeqsUpTo(S, n - 1)
         IN  shorter \cup { Append(q, x) : q \in { t \in shorter : Len(t) = n - 1 }, x \in S }

Amounts == { FromInt(a) : a \in {-10, -2, 0, 1, 12} }
SeriesInputs == { Null } \cup { Arr(q) : q \in SeqsUpTo(Amounts, MaxLen) }
GuessInputs == { DefaultInitialGuess, Zero }
PrecisionInputs == { Dec(1, -1), Dec(1, -3) }
\* the rates of the direct calls of calculateNPV and calculateNPVDerivative
RateInputs == { Zero, DefaultInitialGuess, FromInt(-1), FromInt(1) }
\* the series of the direct calls of mightHaveMultipleIRRSolutions
SignAmounts == { FromInt(a) : a \in {-2, 0, 1} }
SignInputs == { Null } \cup { Arr(q) : q \in SeqsUpTo(SignAmounts, MaxSigns) }

\* absent, built by the factory, and a record whose stored total is not the
\* sum of its components (the type InitialInvestment allows it)
InvestmentInputs ==
    { Null, createInitialInvestment(FromInt(8), FromInt(2), Zero, Zero),
      [createInitialInvestment(FromInt(8), FromInt(2), Zero, Zero)
          EXCEPT !.total = FromInt(5)] }
FlowAmounts == { <<FromInt(25), Zero>>, <<Zero, FromInt(30)>> }
FlowInputs ==
    { createCashFlow(p, t, a[1], a[2], Zero, Zero) :
        p \in 1..MaxPeriod, t \in {"monthly", "annual"},
        a \in FlowAmounts }
FlowListInputs == { Null } \cup { Arr(q) : q \in SeqsUpTo(FlowInputs, MaxFlows) }
SaleInputs ==
    { Null } \cup
    { createSaleProceeds(FromInt(13), FromInt(1), h, t) :
        h \in 1..MaxHolding, t \in {"months", "years"} } \cup
    { createSaleProceeds(FromInt(13), FromInt(1), LongHolding, "months") }
\* the sale s held half a period longer
AndAHalf(s) ==
    [f \in (DOMAIN s) \cup {"holdingPeriodHalf"} |->
        IF f = "holdingPeriodHalf" THEN TRUE ELSE s[f]]
\* sales with any positive holding period
AnyHoldingSaleInputs ==
    (SaleInputs \ { Null }) \cup { AndAHalf(s) : s \in SaleInputs \ { Null } }
\* the schedules that are reordered: rents of 1000 and of 0.4
OrderFlowInputs ==
    { createCashFlow(p, t, a, Zero, Zero, Zero) :
        p \in 1..MaxPeriod, t \in {"monthly", "annual"},
        a \in { FromInt(1000), Dec(4, -1) } }
OrderListInputs == SeqsUpTo(OrderFlowInputs, MaxOrderFlows)
\* the reorderings of a list of n entries
Reorderings(n) ==
    { f \in [1..n -> 1..n] : \A i, j \in 1..n : f[i] = f[j] => i = j }
Permuted(items, f) == [i \in 1..Len(items) |-> items[f[i]]]
\* the arguments of the direct calls of projectToCashFlowArray
BuildInputs ==
    [initialInvestment : InvestmentInputs, cashFlows : FlowListInputs,
     saleProceeds : SaleInputs]
\* the projects calculateProjectIRR is called on: those whose schedule is
\* absent or has one annual entry for each of the periods 1..n, in order
ProjectInputs ==
    { p \in BuildInputs :
        p.cashFlows = Null \/
        \A i \in 1..Len(p.cashFlows.items) :
            /\ p.cashFlows.items[i].periodType = "annual"
            /\ p.cashFlows.items[i].period = i }

VARIABLES
    pc,             \* "idle", "newton" (in the do-while loop) or "done"
    call,           \* the function called: "calculateIRR" or "calculateProjectIRR"
    project,        \* the project passed to calculateProjectIRR or projectToCashFlowArray,
                    \* or the argument of a serialization function
    built,          \* what projectToCashFlowArray returned: a series, or Throw
    cashFlows,      \* calculateIRR's arguments
    initialGuess,
    maxIterations,
    precision,
    warn,           \* calculateProjectIRR took the multiple-solutions branch
    guessIdx,       \* position of the for loop in guesses, from 1
    rate,           \* the locals of the loop body
    iteration,
    npv,
    irrResult,      \* what calculateIRR returned
    result,         \* what the call returned
    seedSteps,      \* passes through the loop body for the current guess
    totalSteps,     \* passes through the loop body in all
    abandoned,      \* why each guess so far was given up
    returned,       \* what a direct call of calculateNPV, calculateNPVDerivative,
                    \* mightHaveMultipleIRRSolutions or a serialization function
                    \* returned: a value, or Throw
    localStorage,   \* the item under STORAGE_KEY: Null, or the stored list
    projects,       \* the store's state: a list of project objects,
    currentProject, \* a project object or Null,
    isLoading,
    error,          \* Null or a message
    now,            \* the instant new Date() and Date.now() give
    nextId,         \* the id generateId gives next
    lastCall,       \* the last store or ProjectStorage call: its name, the id
                    \* it was about, and how it ended
    saved           \* for each id, what the last save of it that was not
                    \* deleted since wrote, or Null

calcVars ==
    << pc, call, project, built, cashFlows, initialGuess, maxIterations, precision,
       warn, guessIdx, rate, iteration, npv, irrResult, result,
       seedSteps, totalSteps, abandoned, returned >>

storeVars ==
    << localStorage, projects, currentProject, isLoading, error, now, nextId,
       lastCall, saved >>

vars == << calcVars, storeVars >>

NoCall == [irr |-> Null, npv |-> Null, error |-> Null]

Init ==
    /\ pc = "idle"
    /\ call = "none"
    /\ project = Null
    /\ built = Null
    /\ cashFlows = Null
    /\ initialGuess = DefaultInitialGuess
    /\ maxIterations = DefaultMaxIterations
    /\ precision = DefaultPrecision
    /\ warn = FALSE
    /\ guessIdx = 0
    /\ rate = Zero
    /\ iteration = 0
    /\ npv = Zero
    /\ irrResult = NoCall
    /\ result = NoCall
    /\ seedSteps = 0
    /\ totalSteps = 0
    /\ abandoned = << >>
    /\ returned = Null
    /\ localStorage = Null
    /\ projects = << >>
    /\ currentProject = Null
    /\ isLoading = FALSE
    /\ error = Null
    /\ now = 0
    /\ nextId = 1
    /\ lastCall = [op |-> "none", storageOp |-> "none", id |-> 0, threw |-> Null,
                   rejected |-> Null]
    /\ saved = [id \in Ids |-> Null]

\* what calculateProjectIRR returns when projectToCashFlowArray threw
CatchRethrows == Throw
CatchBuildError == Failure(MissingProjectData)

\* what calculateProjectIRR makes of calculateIRR's result r
ProjectResultUnwarned(w, r) == r
ProjectResultAlwaysWarned(w, r) ==
    IF w THEN [r EXCEPT !.error = MultipleSolutions] ELSE r
ProjectResult(w, r) ==
    IF w /\ r.irr # Null THEN [r EXCEPT !.error = MultipleSolutions] ELSE r

\* calculateIRR returns r to its caller, which returns in turn
Return(c, w, r) ==
    /\ pc' = "done"
    /\ irrResult' = r
    /\ result' = IF c = "calculateProjectIRR" THEN ProjectResult(w, r) ELSE r

\* the for loop takes the next guess, or the function falls out of the loop
NextGuessIdxSkipping(i) == i + 2
NextGuessIdx(i) == i + 1

NextGuess(why) ==
    /\ abandoned' = Append(abandoned, why)
    /\ IF NextGuessIdx(guessIdx) <= Len(guesses(initialGuess))
       THEN /\ pc' = "newton"
            /\ guessIdx' = NextGuessIdx(guessIdx)
            /\ rate' = guesses(initialGuess)[NextGuessIdx(guessIdx)]
            /\ iteration' = 0
            /\ npv' = Zero
            /\ seedSteps' = 0
            /\ UNCHANGED << irrResult, result >>
       ELSE /\ Return(call, warn, Failure(ConvergenceFailure))
            /\ seedSteps' = seedSteps + 1
            /\ UNCHANGED << guessIdx, rate, iteration, npv >>

\* the precondition checks of calculateIRR
PrecheckSignFirst(cf) ==
    IF cf # Null /\ (~hasPositive(cf) \/ ~hasNegative(cf))
    THEN Failure(InvalidCashFlowSign)
    ELSE IF cf = Null \/ Len(cf.items) < 2 THEN Failure(InsufficientData)
    ELSE NoCall
Precheck(cf) ==
    IF cf = Null \/ Len(cf.items) < 2 THEN Failure(InsufficientData)
    ELSE IF ~hasPositive(cf) \/ ~hasNegative(cf) THEN Failure(InvalidCashFlowSign)
    ELSE NoCall

\* calculateIRR(cf, g, mi, pr), called by c, up to the first pass through the
\* loop body
EnterIRR(c, w, cf, g, mi, pr) ==
    /\ call' = c
    /\ warn' = w
    /\ cashFlows' = cf
    /\ initialGuess' = g
    /\ maxIterations' = mi
    /\ precision' = pr
    /\ UNCHANGED << totalSteps, abandoned, seedSteps >>
    /\ IF Precheck(cf) # NoCall
       THEN /\ Return(c, w, Precheck(cf))
            /\ UNCHANGED << guessIdx, rate, iteration, npv >>
       ELSE /\ pc' = "newton"
            /\ guessIdx' = 1
            /\ rate' = guesses(g)[1]
            /\ iteration' = 0
            /\ npv' = Zero
            /\ UNCHANGED << irrResult, result >>

CallCalculateIRR ==
    /\ pc = "idle"
    /\ \E cf \in SeriesInputs, g \in GuessInputs, mi \in 0..MaxIter,
          pr \in PrecisionInputs :
          EnterIRR("calculateIRR", FALSE, cf, g, mi, pr)
    /\ UNCHANGED << project, built, returned, storeVars >>

\* projectToCashFlowArray called on its own
CallProjectToCashFlowArray ==
    /\ pc = "idle"
    /\ \E p \in BuildInputs :
          /\ project' = p
          /\ built' = projectToCashFlowArray(
                          p.initialInvestment, p.cashFlows, p.saleProceeds)
    /\ call' = "projectToCashFlowArray"
    /\ pc' = "done"
    /\ UNCHANGED << cashFlows, initialGuess, maxIterations, precision, warn,
                    guessIdx, rate, iteration, npv, irrResult, result, seedSteps,
                    totalSteps, abandoned, returned, storeVars >>

CallCalculateProjectIRR ==
    /\ pc = "idle"
    /\ UNCHANGED << returned, storeVars >>
    /\ \E p \in ProjectInputs :
          LET series == projectToCashFlowArray(
                            p.initialInvestment, p.cashFlows, p.saleProceeds)
          IN  /\ project' = p
              /\ built' = series
              /\ IF series = Throw
                 THEN /\ call' = "calculateProjectIRR"
                      /\ pc' = "done"
                      /\ result' = CatchBuildError
                      /\ warn' = FALSE
                      /\ UNCHANGED << cashFlows, initialGuess, maxIterations,
                                      precision, guessIdx, rate, iteration, npv,
                                      irrResult, seedSteps, totalSteps, abandoned >>
                 ELSE EnterIRR("calculateProjectIRR",
                               mightHaveMultipleIRRSolutions(series), series,
                               DefaultInitialGuess, DefaultMaxIterations,
                               DefaultPrecision)

\* one pass through the body of the do-while loop and the loop test after it
NewtonIteration ==
    /\ pc = "newton"
    /\ LET s == NewtonStep(cashFlows, rate, precision)
       IN  /\ totalSteps' = totalSteps + 1
           /\ IF s.kind = "return"
              THEN /\ Return(call, warn, [irr |-> s.rate, npv |-> s.out, error |-> Null])
                   /\ npv' = s.npv
                   /\ seedSteps' = seedSteps + 1
                   /\ UNCHANGED << guessIdx, rate, iteration, abandoned >>
              ELSE IF s.kind = "continue" /\ iteration + 1 < maxIterations
              THEN /\ rate' = s.rate
                   /\ iteration' = iteration + 1
                   /\ npv' = s.npv
                   /\ seedSteps' = seedSteps + 1
                   /\ UNCHANGED << pc, guessIdx, irrResult, result, abandoned >>
              ELSE NextGuess(IF s.kind = "continue" THEN "iterations" ELSE s.kind)
    /\ UNCHANGED << call, project, built, cashFlows, initialGuess, maxIterations,
                    precision, warn, returned, storeVars >>

\* a direct call f(cf, r) of calculateNPV or calculateNPVDerivative
CallDirect(f, cf, r, v) ==
    /\ pc' = "done"
    /\ call' = f
    /\ cashFlows' = cf
    /\ rate' = r
    /\ returned' = v
    /\ UNCHANGED << project, built, initialGuess, maxIterations, precision, warn,
                    guessIdx, iteration, npv, irrResult, result, seedSteps,
                    totalSteps, abandoned, storeVars >>

CallCalculateNPV ==
    /\ pc = "idle"
    /\ \E cf \in SeriesInputs, r \in RateInputs :
               CallDirect("calculateNPV", cf, r, calculateNPV(cf, r))

CallCalculateNPVDerivative ==
    /\ pc = "idle"
    /\ \E cf \in SeriesInputs, r \in RateInputs :
               CallDirect("calculateNPVDerivative", cf, r, calculateNPVDerivative(cf, r))

CallMightHaveMultipleIRRSolutions ==
    /\ pc = "idle"
    /\ \E cf \in SignInputs :
               CallDirect("mightHaveMultipleIRRSolutions", cf, rate,
                          mightHaveMultipleIRRSolutions(cf))

\* projectToCashFlowArray called on a project with any positive holding period
CallProjectToCashFlowArrayAnyHolding ==
    /\ pc = "idle"
    /\ \E i \in InvestmentInputs \ { Null }, cf \in FlowListInputs \ { Null },
          s \in AnyHoldingSaleInputs :
          /\ project' = [initialInvestment |-> i, cashFlows |-> cf, saleProceeds |-> s]
          /\ built' = projectToCashFlowArray(i, cf, s)
    /\ call' = "projectToCashFlowArray"
    /\ pc' = "done"
    /\ UNCHANGED << cashFlows, initialGuess, maxIterations, precision, warn,
                    guessIdx, rate, iteration, npv, irrResult, result, seedSteps,
                    totalSteps, abandoned, returned, storeVars >>

\* projectToCashFlowArray called on a schedule and on a reordering of it
CallProjectToCashFlowArrayReordered ==
    /\ pc = "idle"
    /\ \E items \in OrderListInputs :
       \E f \in Reorderings(Len(items)) :
       \E i \in { createInitialInvestment(FromInt(8), FromInt(2), Zero, Zero) } :
       \E s \in { createSaleProceeds(FromInt(13), FromInt(1), MaxHolding, "years") } :
          /\ project' = [initialInvestment |-> i, cashFlows |-> Arr(items),
                         saleProceeds |-> s]
          /\ built' = projectToCashFlowArray(i, Arr(items), s)
          /\ returned' =
                 [reordered |-> Permuted(items, f),
                  series |-> projectToCashFlowArray(i, Arr(Permuted(items, f)), s),
                  listAfter |-> CallerListAfter(Permuted(items, f))]
    /\ call' = "projectToCashFlowArray reordered"
    /\ pc' = "done"
    /\ UNCHANGED << cashFlows, initialGuess, maxIterations, precision, warn,
                    guessIdx, rate, iteration, npv, irrResult, result, seedSteps,
                    totalSteps, abandoned, storeVars >>

BuildNext ==
    \/ CallProjectToCashFlowArrayAnyHolding
    \/ CallProjectToCashFlowArrayReordered

BuildSpec == Init /\ [][BuildNext]_vars

Next ==
    \/ CallCalculateIRR
    \/ CallProjectToCashFlowArray
    \/ CallCalculateProjectIRR
    \/ NewtonIteration
    \/ CallCalculateNPV
    \/ CallCalculateNPVDerivative
    \/ CallMightHaveMultipleIRRSolutions

Spec == Init /\ [][Next]_vars

(***************************************************************************)
(* The serialization functions called on their own                         *)
(***************************************************************************)
\* what a field of a stored plain object may hold
RawValues ==
    { FromInt(8), FromInt(2), Zero, NaN, Undefined, Null, Str("abc"), Str("12"),
      Bool(TRUE) }
InvestmentData ==
    [purchasePrice : RawValues, closingCosts : RawValues,
     renovationCosts : {Zero, FromInt(3)}, otherUpfrontExpenses : {Undefined, One},
     total : {Undefined, FromInt(99)}]
CashFlowData ==
    [period : {0, 1}, periodType : {"monthly", "annual", "weekly"},
     rentalIncome : RawValues, operatingExpenses : RawValues,
     debtService : {Zero, FromInt(3)}, vacancyLoss : {Undefined},
     netCashFlow : {Undefined, FromInt(99)}]
SaleData ==
    [estimatedSalePrice : RawValues, sellingCosts : RawValues,
     netProceeds : {Undefined, FromInt(99)}, holdingPeriod : {0, 1, 2},
     holdingPeriodType : {"months", "years", "days"}]

\* projects built with the factory functions
RoundTripFlows ==
    { createCashFlow(q, t, FromInt(25), Zero, Zero, Zero) :
        q \in 0..1, t \in {"monthly", "annual"} }
RoundTripProjects ==
    [id : {Str("p1")}, name : {Str("A")},
     description : {Undefined, Str(""), Str("d")},
     createdAt : {DateAt(1)}, updatedAt : {DateAt(1), DateAt(2)},
     initialInvestment :
         { createInitialInvestment(Zero, Zero, Zero, Zero),
           createInitialInvestment(FromInt(8), FromInt(2), Zero, Zero) },
     cashFlows : { Arr(q) : q \in SeqsUpTo(RoundTripFlows, MaxRoundTripFlows) },
     saleProceeds :
         { createSaleProceeds(FromInt(13), One, h, t) :
             h \in 0..1, t \in {"months", "years"} },
     calculatedIRR : {Undefined, Dec(8, -2)},
     calculatedNPV : {Undefined, Zero}]

\* a call f(d) that returned v
CallSerialization(f, d, v) ==
    /\ pc' = "done"
    /\ call' = f
    /\ project' = d
    /\ returned' = v
    /\ UNCHANGED << built, cashFlows, initialGuess, maxIterations, precision, warn,
                    guessIdx, rate, iteration, npv, irrResult, result, seedSteps,
                    totalSteps, abandoned, storeVars >>

CallDeserializeInitialInvestment ==
    /\ pc = "idle"
    /\ \E d \in InvestmentData :
               CallSerialization("deserializeInitialInvestment", d,
                                 deserializeInitialInvestment(d))

CallDeserializeCashFlow ==
    /\ pc = "idle"
    /\ \E d \in CashFlowData :
               CallSerialization("deserializeCashFlow", d, deserializeCashFlow(d))

CallDeserializeSaleProceeds ==
    /\ pc = "idle"
    /\ \E d \in SaleData :
               CallSerialization("deserializeSaleProceeds", d, deserializeSaleProceeds(d))

\* deserializeProject(serializeProject(p))
CallRoundTrip ==
    /\ pc = "idle"
    /\ \E p \in RoundTripProjects :
               CallSerialization("deserializeProject", p,
                                 deserializeProject(serializeProject(p)))

SerialNext ==
    \/ CallDeserializeInitialInvestment
    \/ CallDeserializeCashFlow
    \/ CallDeserializeSaleProceeds
    \/ CallRoundTrip

SerialSpec == Init /\ [][SerialNext]_vars

(***************************************************************************)
(* The store (store/index.ts) and ProjectStorage as a state machine.  A    *)
(* project object is the record Obj(o, v) of its identity o and its value  *)
(* v: an assignment to a field of an object changes the value wherever the *)
(* object is held.  No action awaits anything, so each runs to its end in  *)
(* one step.                                                               *)
(***************************************************************************)
Obj(o, v) == [obj |-> o, val |-> v]

\* createProject(name) is called without a description; an update gives one
Names == { Str("A") }
Descriptions == { Undefined }
NewDescriptions == { Str("d") }
Environments == { "ok", "unavailable", "quota" }

\* the object o has the value v wherever the store holds it
MutateList(list, o, v) ==
    [i \in 1..Len(list) |-> IF list[i].obj = o THEN Obj(o, v) ELSE list[i]]
MutateCurrent(cur, o, v) ==
    IF cur # Null /\ cur.obj = o THEN Obj(o, v) ELSE cur

\* error instanceof Error ? error.message : fallback
StoreErrorMessage(thrown, fallback) ==
    IF "message" \in DOMAIN thrown THEN Str(thrown.message) ELSE Str(fallback)

\* the objects the store holds
StoreObjects ==
    { projects[i] : i \in 1..Len(projects) } \cup
    (IF currentProject = Null THEN {} ELSE {currentProject})

\* Object identities.  The store holds one object per project id (create and
\* update put the same object in projects and in currentProject, and
\* setCurrentProject takes the object of the list), so a held object is named
\* by its id; an object the caller has just built is named NewObj until the
\* store holds it.
NewObj == 0
HeldObj(id) == id
\* initializeStore puts new objects in projects and leaves currentProject: the
\* object currentProject holds is then none of the list
DetachedObj(id) == -id

StoreInitFailed == ErrorOf("Failed to load projects from local storage")

\* const project = projects.find(p => p.id === projectId);
\* project ? set({ currentProject: project }) : set({ error })
CurrentAfterSetCleared(cur, list, id) ==
    IF \E i \in 1..Len(list) : list[i].val.id = id
    THEN list[CHOOSE i \in 1..Len(list) :
                  /\ list[i].val.id = id
                  /\ \A j \in 1..(i - 1) : list[j].val.id # id]
    ELSE Null
CurrentAfterSet(cur, list, id) ==
    IF \E i \in 1..Len(list) : list[i].val.id = id
    THEN list[CHOOSE i \in 1..Len(list) :
                  /\ list[i].val.id = id
                  /\ \A j \in 1..(i - 1) : list[j].val.id # id]
    ELSE cur

\* state.currentProject?.id === projectId ? null : state.currentProject
CurrentAfterDeleteCleared(cur, id) == Null
CurrentAfterDelete(cur, id) ==
    IF cur # Null /\ cur.val.id = id THEN Null ELSE cur

\* state.projects.filter(p => p.id !== projectId)
ProjectsAfterDelete(list, id) == SelectSeq(list, LAMBDA p : p.val.id # id)

Tick ==
    /\ now < MaxClock
    /\ now' = now + 1
    /\ UNCHANGED << calcVars, localStorage, projects, currentProject, isLoading,
                    error, nextId, lastCall, saved >>

StoreCreateProject ==
    /\ nextId <= MaxIds
    /\ \E name \in Names, description \in Descriptions, env \in Environments :
          \E r \in { saveProject(localStorage,
                                  createProject(nextId, name, description, now),
                                  now, env) } :
              /\ localStorage' = r.storage
              /\ IF r.threw # Null
                 THEN /\ error' = StoreErrorMessage(r.threw, "Failed to create project")
                      /\ UNCHANGED << projects, currentProject, saved >>
                 ELSE /\ projects' = Append(projects, Obj(HeldObj(nextId), r.project))
                      /\ currentProject' = Obj(HeldObj(nextId), r.project)
                      /\ error' = Null
                      /\ saved' = [saved EXCEPT ![nextId] = r.project]
              /\ lastCall' = [op |-> "createProject", storageOp |-> "saveProject",
                              id |-> nextId, threw |-> r.threw,
                              rejected |-> r.threw]
    /\ isLoading' = FALSE
    /\ nextId' = nextId + 1
    /\ UNCHANGED << calcVars, now >>

\* updateProject(arg): arg is an object the store holds or a new object
UpdateProject(arg, env) ==
    \E r \in { saveProject(localStorage,
                            [arg.val EXCEPT !.updatedAt = DateAt(now)], now, env) } :
    \E final \in { Obj(HeldObj(arg.val.id), r.project) } :
    \E held \in { MutateList(projects, arg.obj, r.project) } :
    \E heldCurrent \in { MutateCurrent(currentProject, arg.obj, r.project) } :
        /\ localStorage' = r.storage
        /\ IF r.threw # Null
           THEN /\ error' = StoreErrorMessage(r.threw, "Failed to update project")
                /\ projects' = held
                /\ currentProject' = heldCurrent
                /\ UNCHANGED saved
           ELSE /\ projects' =
                       [i \in 1..Len(held) |->
                           IF held[i].val.id = final.val.id THEN final ELSE held[i]]
                /\ currentProject' =
                       IF heldCurrent # Null /\ heldCurrent.val.id = final.val.id
                       THEN final ELSE heldCurrent
                /\ error' = Null
                /\ saved' = [saved EXCEPT ![final.val.id] = r.project]
        /\ lastCall' = [op |-> "updateProject", storageOp |-> "saveProject",
                        id |-> arg.val.id, threw |-> r.threw,
                        rejected |-> r.threw]
        /\ isLoading' = FALSE
        /\ UNCHANGED << calcVars, now, nextId >>

\* updateProject called with an object the store holds
StoreUpdateProjectHeld ==
    \E arg \in StoreObjects, env \in Environments :
        UpdateProject(arg, env)

\* updateProject called with a copy { ...arg, description } of such an object
StoreUpdateProjectCopy ==
    /\ \E arg \in StoreObjects, description \in NewDescriptions, env \in Environments :
          UpdateProject(Obj(NewObj, [arg.val EXCEPT !.description = description]), env)

StoreDeleteProject ==
    /\ \E id \in Ids, env \in Environments :
          \E r \in { deleteProject(localStorage, id, env) } :
              /\ localStorage' = r.storage
              /\ IF r.threw # Null
                 THEN /\ error' = StoreErrorMessage(r.threw, "Failed to delete project")
                      /\ UNCHANGED << projects, currentProject, saved >>
                 ELSE /\ projects' = ProjectsAfterDelete(projects, id)
                      /\ currentProject' = CurrentAfterDelete(currentProject, id)
                      /\ error' = Null
                      /\ saved' = [saved EXCEPT ![id] = Null]
              /\ lastCall' = [op |-> "deleteProject", storageOp |-> "deleteProject",
                              id |-> id, threw |-> r.threw,
                              rejected |-> r.threw,
                              held |-> \E i \in 1..Len(projects) :
                                          projects[i].val.id = id]
    /\ isLoading' = FALSE
    /\ UNCHANGED << calcVars, now, nextId >>

StoreSetCurrentProject ==
    /\ \E id \in Ids :
          /\ currentProject' = CurrentAfterSet(currentProject, projects, id)
          /\ IF \E i \in 1..Len(projects) : projects[i].val.id = id
             THEN UNCHANGED error
             ELSE error' = Str("Project with ID not found")
          /\ lastCall' = [op |-> "setCurrentProject", storageOp |-> "none",
                          id |-> id, threw |-> Null,
                          rejected |-> Null]
    /\ UNCHANGED << calcVars, localStorage, projects, isLoading, now, nextId, saved >>

StoreClearCurrentProject ==
    /\ currentProject # Null
    /\ currentProject' = Null
    /\ lastCall' = [op |-> "clearCurrentProject", storageOp |-> "none",
                    id |-> 0, threw |-> Null,
                    rejected |-> Null]
    /\ UNCHANGED << calcVars, localStorage, projects, isLoading, error, now,
                    nextId, saved >>

\* ProjectStorage.deleteProject called on its own
StorageDeleteProject ==
    /\ \E id \in Ids, env \in Environments :
          \E r \in { deleteProject(localStorage, id, env) } :
              /\ localStorage' = r.storage
              /\ saved' = IF r.threw = Null THEN [saved EXCEPT ![id] = Null]
                          ELSE saved
              /\ lastCall' = [op |-> "ProjectStorage.deleteProject",
                              storageOp |-> "deleteProject",
                              id |-> id, threw |-> r.threw,
                              rejected |-> r.threw]
    /\ UNCHANGED << calcVars, projects, currentProject, isLoading, error, now,
                    nextId >>

\* initializeStore: projects becomes what loadAllProjects returns
StoreInitializeStore ==
    /\ \E env \in Environments :
       \E loaded \in { loadAllProjects(localStorage, env) } :
          /\ IF loaded = Throw
             THEN /\ error' = StoreErrorMessage(StoreInitFailed, "Failed to load projects")
                  /\ UNCHANGED << projects, currentProject >>
             ELSE /\ projects' = [i \in 1..Len(loaded.items) |->
                                     Obj(HeldObj(loaded.items[i].id), loaded.items[i])]
                  /\ currentProject' =
                         IF currentProject = Null THEN Null
                         ELSE Obj(DetachedObj(currentProject.val.id), currentProject.val)
                  /\ error' = Null
          /\ lastCall' = [op |-> "initializeStore", storageOp |-> "loadAllProjects",
                          id |-> 0,
                          threw |-> IF loaded = Throw THEN StoreInitFailed ELSE Null,
                          rejected |-> Null]
    /\ isLoading' = FALSE
    /\ UNCHANGED << calcVars, localStorage, now, nextId, saved >>

\* updateProject called with a project the store does not hold: one built
\* earlier by the factory, with an id that is not in projects
StoreUpdateProjectOther ==
    /\ \E id \in 1..(nextId - 1), name \in Names, env \in Environments :
          /\ \A h \in StoreObjects : h.val.id # id
          /\ UpdateProject(Obj(NewObj, createProject(id, name, Undefined, 0)), env)

\* the store's actions, ProjectStorage being called by the store only
StoreActionsNext ==
    \/ Tick
    \/ StoreInitializeStore
    \/ StoreCreateProject
    \/ StoreUpdateProjectHeld
    \/ StoreUpdateProjectCopy
    \/ StoreUpdateProjectOther
    \/ StoreDeleteProject
    \/ StoreSetCurrentProject
    \/ StoreClearCurrentProject

StoreActionsSpec == Init /\ [][StoreActionsNext]_vars

StoreNext ==
    \/ Tick
    \/ StoreCreateProject
    \/ StoreUpdateProjectHeld
    \/ StoreUpdateProjectCopy
    \/ StoreDeleteProject
    \/ StoreSetCurrentProject
    \/ StoreClearCurrentProject
    \/ StorageDeleteProject

StoreSpec == Init /\ [][StoreNext]_vars

(***************************************************************************)
(* The claims                                                              *)
(***************************************************************************)
\* calculateIRR has returned (to the test or to calculateProjectIRR)
SolverReturned == pc = "done" /\ irrResult # NoCall

\* the seed list as the specification gives it
SeedList(g) ==
    << g, Dec(1, -2), Dec(5, -2), Dec(10, -2), Dec(15, -2), Dec(20, -2),
       Dec(25, -2), Dec(30, -2), Dec(50, -2), Dec(75, -2), Dec(100, -2) >>

\* The Newton-Raphson iteration from rate r with `it` iterations counted:
\* the rate it converges to, or Null when the seed is abandoned.
RECURSIVE SeedRun(_, _, _, _, _)
SeedRun(cf, r, it, mi, pr) ==
    LET s == NewtonStep(cf, r, pr)
    IN  IF s.kind = "return" THEN s.rate
        ELSE IF s.kind = "continue" /\ it + 1 < mi
        THEN SeedRun(cf, s.rate, it + 1, mi, pr)
        ELSE Null

ConvergingSeeds ==
    { k \in 1..11 :
        SeedRun(cashFlows, SeedList(initialGuess)[k], 0, maxIterations, precision) # Null }

\* C1: the seeds are tried in the order of the list and the first one whose
\* iteration converges gives the returned irr; no later seed is run.
C1_FirstConvergingSeedWins ==
    (SolverReturned /\ Precheck(cashFlows) = NoCall) =>
        IF ConvergingSeeds = {} THEN irrResult.irr = Null
        ELSE LET k == CHOOSE j \in ConvergingSeeds : \A i \in ConvergingSeeds : j <= i
             IN  /\ irrResult.irr =
                        SeedRun(cashFlows, SeedList(initialGuess)[k], 0,
                                maxIterations, precision)
                 /\ guessIdx = k
                 /\ Len(abandoned) = k - 1

C1_Witness ==
    /\ SolverReturned
    /\ call = "calculateIRR"
    /\ irrResult.irr # Null
    /\ guessIdx > 2
    /\ seedSteps > 1

\* C2 as stated: on convergence the NPV at the returned irr is within
\* precision of 0, and the returned npv is the NPV at the returned irr.
C2_NpvWithinPrecision ==
    (SolverReturned /\ irrResult.irr # Null) =>
        /\ Less(Abs(calculateNPV(cashFlows, irrResult.irr)), precision)
        /\ irrResult.npv = calculateNPV(cashFlows, irrResult.irr)

\* C2 amended: on convergence the returned irr is within precision of the
\* iterate before it, and the returned npv is the NPV at the returned irr.
C2_NpvAtReturnedRate ==
    (SolverReturned /\ irrResult.irr # Null) =>
        /\ Less(Abs(Sub(irrResult.irr, rate)), precision)
        /\ irrResult.npv = calculateNPV(cashFlows, irrResult.irr)

C2_Witness ==
    /\ SolverReturned
    /\ irrResult.irr # Null
    /\ irrResult.npv # npv
    /\ irrResult.irr # rate

\* C3: an absent series or one of fewer than 2 entries is reported as
\* insufficient data, whatever the signs, with no evaluation of NPV, and the
\* failure is a returned value.
C3_InsufficientDataFirst ==
    (pc = "done" /\ call = "calculateIRR"
        /\ (cashFlows = Null \/ Len(cashFlows.items) < 2)) =>
        /\ result = [irr |-> Null, npv |-> Null, error |-> InsufficientData]
        /\ totalSteps = 0
        /\ guessIdx = 0

C3_Witness ==
    /\ pc = "done"
    /\ call = "calculateIRR"
    /\ cashFlows # Null
    /\ Len(cashFlows.items) = 1
    /\ cashFlows.items[1].m < 0
    /\ result.error = InsufficientData

StrictlyPositive(x) == x.k # "nan" /\ x.m > 0
StrictlyNegative(x) == x.k # "nan" /\ x.m < 0
BothSigns(cf) ==
    /\ \E i \in 1..Len(cf.items) : StrictlyPositive(cf.items[i])
    /\ \E i \in 1..Len(cf.items) : StrictlyNegative(cf.items[i])

\* C4: a series of at least 2 entries without a strictly positive or without a
\* strictly negative entry is reported as an invalid sign with no Newton step;
\* a series with both passes the check.
C4_SignCheck ==
    /\ (SolverReturned /\ cashFlows # Null /\ Len(cashFlows.items) >= 2) =>
          IF BothSigns(cashFlows)
          THEN irrResult.error \notin { InsufficientData, InvalidCashFlowSign }
          ELSE /\ irrResult = [irr |-> Null, npv |-> Null, error |-> InvalidCashFlowSign]
               /\ totalSteps = 0
    /\ pc = "newton" => (Len(cashFlows.items) >= 2 /\ BothSigns(cashFlows))

C4_Witness ==
    /\ SolverReturned
    /\ cashFlows # Null
    /\ Len(cashFlows.items) = 3
    /\ \E i \in 1..3 : cashFlows.items[i] = Zero
    /\ \E i \in 1..3 : StrictlyNegative(cashFlows.items[i])
    /\ irrResult.error = InvalidCashFlowSign

AbandonReasons == { abandoned[i] : i \in 1..Len(abandoned) }

\* C5: the convergence failure is returned when all 11 seeds have been
\* abandoned (derivative too small, rate out of range, iterations used up)
\* and only then, with irr and npv null.
C5_ConvergenceFailure ==
    SolverReturned =>
        /\ (irrResult.error = ConvergenceFailure) <=> (Len(abandoned) = 11)
        /\ (Len(abandoned) = 11) => (irrResult.irr = Null /\ irrResult.npv = Null)
        /\ AbandonReasons \subseteq { "derivative", "range", "iterations" }

C5_Witness ==
    /\ SolverReturned
    /\ irrResult = [irr |-> Null, npv |-> Null, error |-> ConvergenceFailure]
    /\ AbandonReasons = { "derivative", "range", "iterations" }

\* C6 as stated: at most maxIterations passes through the loop body per seed
\* and at most 11 x maxIterations in all.
C6_StepBound ==
    /\ seedSteps <= maxIterations
    /\ totalSteps <= 11 * maxIterations

\* C7: irr and npv are both null or both non-null; a failure carries an
\* error diagnostic, a success none or a warning.
C7_ResultShape ==
    (pc = "done" /\ call \in { "calculateIRR", "calculateProjectIRR" }) =>
        /\ result # Throw
        /\ (result.irr = Null) <=> (result.npv = Null)
        /\ (result.irr = Null) =>
              (result.error # Null /\ result.error.severity = "error")
        /\ (result.irr # Null) =>
              (result.error = Null \/ result.error.severity = "warning")

C7_Witness ==
    /\ pc = "done"
    /\ call = "calculateProjectIRR"
    /\ result.irr # Null
    /\ result.npv # Null
    /\ result.error # Null

\* C8: with a series that may have multiple roots and a successful solver,
\* calculateProjectIRR returns the solver's irr and npv with a warning; with
\* a series that may not, it returns the solver's result as it is.
C8_WarningOnSuccess ==
    (pc = "done" /\ call = "calculateProjectIRR" /\ built # Throw) =>
        /\ cashFlows = built
        /\ (mightHaveMultipleIRRSolutions(built) /\ irrResult.irr # Null) =>
              /\ result.irr = irrResult.irr
              /\ result.npv = irrResult.npv
              /\ result.error # Null
              /\ result.error.severity = "warning"
        /\ ~mightHaveMultipleIRRSolutions(built) => result = irrResult

C8_Witness ==
    /\ pc = "done"
    /\ call = "calculateProjectIRR"
    /\ built # Throw
    /\ mightHaveMultipleIRRSolutions(built)
    /\ irrResult.irr # Null
    /\ irrResult.error = Null
    /\ result.error = MultipleSolutions

\* C9: a failure of the solver is returned unchanged, with the solver's own
\* error diagnostic, also when the series may have multiple roots.
C9_FailurePassedThrough ==
    (pc = "done" /\ call = "calculateProjectIRR" /\ built # Throw
        /\ irrResult.irr = Null) =>
        /\ result = irrResult
        /\ result.npv = Null
        /\ result.error \in { InsufficientData, InvalidCashFlowSign, ConvergenceFailure }

C9_Witness ==
    /\ pc = "done"
    /\ call = "calculateProjectIRR"
    /\ built # Throw
    /\ mightHaveMultipleIRRSolutions(built)
    /\ result = [irr |-> Null, npv |-> Null, error |-> ConvergenceFailure]

SomeArgumentAbsent ==
    \/ project.initialInvestment = Null
    \/ project.cashFlows = Null
    \/ project.saleProceeds = Null

\* C10: projectToCashFlowArray throws exactly when one of its arguments is
\* absent, and calculateProjectIRR then returns an error result instead of
\* throwing.
C10_MissingDataIsReturned ==
    /\ (pc = "done" /\ call = "projectToCashFlowArray") =>
          ((built = Throw) <=> SomeArgumentAbsent)
    /\ (pc = "done" /\ call = "calculateProjectIRR") =>
          /\ result # Throw
          /\ (built = Throw) <=> SomeArgumentAbsent
          /\ SomeArgumentAbsent =>
                /\ result.irr = Null
                /\ result.npv = Null
                /\ result.error.type = "calculation"
                /\ result.error.severity = "error"

C10_Witness ==
    /\ pc = "done"
    /\ call = "calculateProjectIRR"
    /\ project.initialInvestment # Null
    /\ project.cashFlows # Null
    /\ project.saleProceeds = Null
    /\ result.error = MissingProjectData

(***************************************************************************)
(* mightHaveMultipleIRRSolutions called on its own                         *)
(***************************************************************************)
DetectorReturned == pc = "done" /\ call = "mightHaveMultipleIRRSolutions"

\* the non-zero entries of a series, in order
NonZeroEntries(items) == SelectSeq(items, LAMBDA x : x.m # 0)

\* the places where two neighbours of a sequence of non-zero numbers differ in sign
SignChangePlaces(q) == { i \in 1..(Len(q) - 1) : (q[i].m < 0) # (q[i + 1].m < 0) }

\* one negative entry first, and only non-negative entries after it
SingleOutflowFirst(items) ==
    /\ Len(items) >= 1
    /\ items[1].m < 0
    /\ \A i \in 2..Len(items) : items[i].m >= 0

\* C11: mightHaveMultipleIRRSolutions returns true iff the series has at least 3
\* entries and the sequence of its non-zero entries changes sign more than once;
\* a series of one negative entry followed only by non-negative ones gives false.
C11_MoreThanOneSignChange ==
    DetectorReturned =>
        /\ returned =
             (/\ cashFlows # Null
              /\ Len(cashFlows.items) >= 3
              /\ Cardinality(SignChangePlaces(NonZeroEntries(cashFlows.items))) > 1)
        /\ (cashFlows # Null /\ SingleOutflowFirst(cashFlows.items)) => returned = FALSE

\* true for a series where a zero stands between the two sign changes
C11_Witness ==
    /\ DetectorReturned
    /\ returned = TRUE
    /\ Len(cashFlows.items) = 4
    /\ cashFlows.items[1].m # 0
    /\ cashFlows.items[2].m = 0
    /\ Len(NonZeroEntries(cashFlows.items)) = 3

(***************************************************************************)
(* projectToCashFlowArray called on its own                                *)
(***************************************************************************)
SeriesBuilt ==
    /\ pc = "done"
    /\ call = "projectToCashFlowArray"
    /\ built # Throw

\* C12: series[0] is minus the sum of the four components of the initial
\* investment, whatever the record's stored total field holds.
C12_FirstEntryIsRecomputedTotal ==
    SeriesBuilt =>
        built.items[1] =
            Neg(calculateTotalInitialInvestment(
                    project.initialInvestment.purchasePrice,
                    project.initialInvestment.closingCosts,
                    project.initialInvestment.renovationCosts,
                    project.initialInvestment.otherUpfrontExpenses))

\* every entry of the schedule has the unit t
AllOfType(items, t) == \A i \in 1..Len(items) : items[i].periodType = t

\* the schedule is in one unit and the sale's holding period is in the same one
UniformUnits(p) ==
    \/ /\ AllOfType(p.cashFlows.items, "annual")
       /\ p.saleProceeds.holdingPeriodType = "years"
    \/ /\ AllOfType(p.cashFlows.items, "monthly")
       /\ p.saleProceeds.holdingPeriodType = "months"

\* the same, where an empty schedule counts as annual
UniformUnitsOfEntries(p) ==
    UniformUnits(p) /\
    (p.cashFlows.items = << >> => p.saleProceeds.holdingPeriodType = "years")

\* the sum of netCashFlow over the first n entries whose period is q
RECURSIVE SumAtPeriod(_, _, _)
SumAtPeriod(items, q, n) ==
    IF n = 0 THEN Zero
    ELSE IF items[n].period = q
    THEN Add(SumAtPeriod(items, q, n - 1), items[n].netCashFlow)
    ELSE SumAtPeriod(items, q, n - 1)

\* the largest period of the schedule, 0 for an empty one
LastPeriod(items) ==
    IF items = << >> THEN 0
    ELSE CHOOSE q \in { items[i].period : i \in 1..Len(items) } :
             \A i \in 1..Len(items) : items[i].period <= q

\* the series holds, from index 1 on, the per-period sums of project p
IsDirectSum(series, p) ==
    LET items == p.cashFlows.items
        h == p.saleProceeds.holdingPeriod
        last == IF LastPeriod(items) > h THEN LastPeriod(items) ELSE h
    IN  /\ Len(series) = last + 1
        /\ \A q \in 1..last :
               series[q + 1] =
                   IF q = h
                   THEN Add(SumAtPeriod(items, q, Len(items)), p.saleProceeds.netProceeds)
                   ELSE SumAtPeriod(items, q, Len(items))

\* C13 as stated: when every entry has the same unit and the sale's holding
\* period is in that unit, series[p] is the sum of netCashFlow over the entries
\* of period p, plus netProceeds at p = holdingPeriod, for p = 1..max(maxPeriod,
\* holdingPeriod).
C13_DirectSumWhenUniform ==
    (SeriesBuilt /\ UniformUnits(project)) => IsDirectSum(built.items, project)

\* C13 amended: the same for a non-empty schedule in one unit with the sale in
\* that unit, and for an empty schedule with the sale's holding period in years.
C13_DirectSumWhenUniformEntries ==
    (SeriesBuilt /\ UniformUnitsOfEntries(project)) => IsDirectSum(built.items, project)

\* a monthly schedule with two entries for period 2, none for period 1, and a
\* sale after 1 month
C13_Witness ==
    /\ SeriesBuilt
    /\ UniformUnitsOfEntries(project)
    /\ Len(project.cashFlows.items) = 2
    /\ project.cashFlows.items[1].periodType = "monthly"
    /\ project.cashFlows.items[1].period = 2
    /\ project.cashFlows.items[2].period = 2
    /\ project.saleProceeds.holdingPeriod = 1
    /\ built.items[3] = Add(project.cashFlows.items[1].netCashFlow,
                            project.cashFlows.items[2].netCashFlow)

(***************************************************************************)
(* calculateNPV and calculateNPVDerivative called on their own             *)
(***************************************************************************)
\* the entries of a series added up from the first to the last
RECURSIVE PlainSum(_, _)
PlainSum(items, n) ==
    IF n = 0 THEN Zero ELSE Add(PlainSum(items, n - 1), items[n])

NonEmptySeries(cf) == cf # Null /\ Len(cf.items) > 0

\* C14: for every non-empty series, calculateNPV at rate 0 is the plain sum of
\* the entries.
C14_NpvAtZeroIsSum ==
    (pc = "done" /\ call = "calculateNPV" /\ rate = Zero /\ NonEmptySeries(cashFlows))
        => returned = PlainSum(cashFlows.items, Len(cashFlows.items))

\* a series of three entries with a non-zero first entry and a non-zero sum
C14_Witness ==
    /\ pc = "done"
    /\ call = "calculateNPV"
    /\ rate = Zero
    /\ NonEmptySeries(cashFlows)
    /\ Len(cashFlows.items) = 3
    /\ cashFlows.items[1].m # 0
    /\ cashFlows.items[3].m # 0
    /\ returned = PlainSum(cashFlows.items, 3)
    /\ returned.m # 0

\* C15: calculateNPV and calculateNPVDerivative throw for an absent or empty
\* series at every rate and never throw for a non-empty one; no call of
\* calculateIRR ends with that exception.
C15_EmptySeriesThrows ==
    /\ (pc = "done" /\ call \in {"calculateNPV", "calculateNPVDerivative"})
           => ((returned = Throw) <=> ~NonEmptySeries(cashFlows))
    /\ (call \in {"calculateIRR", "calculateProjectIRR"})
           => (result # Throw /\ irrResult # Throw /\
               \A i \in 1..Len(abandoned) : abandoned[i] # "catch")

\* the derivative threw on an empty series
C15_Witness ==
    /\ pc = "done"
    /\ call = "calculateNPVDerivative"
    /\ cashFlows # Null
    /\ cashFlows.items = << >>
    /\ returned = Throw

(***************************************************************************)
(* Serialization                                                           *)
(***************************************************************************)
Deserialized(f) == pc = "done" /\ call = f

\* the fields of the three records that are components of a derived field
ComponentFields(f) ==
    IF f = "deserializeInitialInvestment"
    THEN {"purchasePrice", "closingCosts", "renovationCosts", "otherUpfrontExpenses"}
    ELSE IF f = "deserializeCashFlow"
    THEN {"rentalIncome", "operatingExpenses", "debtService", "vacancyLoss"}
    ELSE {"estimatedSalePrice", "sellingCosts"}

RecordFunctions ==
    {"deserializeInitialInvestment", "deserializeCashFlow", "deserializeSaleProceeds"}

\* the derived field of record r is what its components give
DerivedIsRecomputed(f, r) ==
    IF f = "deserializeInitialInvestment"
    THEN r.total = Add(Add(Add(r.purchasePrice, r.closingCosts), r.renovationCosts),
                       r.otherUpfrontExpenses)
    ELSE IF f = "deserializeCashFlow"
    THEN r.netCashFlow = Sub(Sub(Sub(r.rentalIncome, r.operatingExpenses),
                                 r.debtService), r.vacancyLoss)
    ELSE r.netProceeds = Sub(r.estimatedSalePrice, r.sellingCosts)

\* a value of type number other than NaN
IsProperNumber(v) == IsNumber(v) /\ v.k # "nan"

\* C19 as stated: the derived field of every deserialized record is recomputed
\* from the deserialized components, whatever the stored derived value; a
\* component that is missing or not a number is read as 0.
C19_DerivedRecomputedNonNumbersZero ==
    \A f \in RecordFunctions :
        Deserialized(f) =>
            /\ DerivedIsRecomputed(f, returned)
            /\ \A c \in ComponentFields(f) :
                   IF IsProperNumber(project[c]) THEN returned[c] = project[c]
                   ELSE returned[c] = Zero

\* what Number() makes of a value that is not a number: numeric strings and
\* booleans convert, everything else does not
ConvertsTo(v) ==
    IF v = Str("12") THEN FromInt(12)
    ELSE IF v = Bool(TRUE) THEN One
    ELSE Zero

\* C19 amended: the derived field is recomputed from the deserialized
\* components; a component is read as the number it is, or the number that
\* Number() converts it to (a numeric string, a boolean), and as 0 when it is
\* missing, null, NaN or does not convert.
C19_DerivedRecomputedUnconvertibleZero ==
    \A f \in RecordFunctions :
        Deserialized(f) =>
            /\ DerivedIsRecomputed(f, returned)
            /\ \A c \in ComponentFields(f) :
                   IF IsProperNumber(project[c]) THEN returned[c] = project[c]
                   ELSE returned[c] = ConvertsTo(project[c])

\* a stored total of 99 over a non-numeric string and the number 2
C19_Witness ==
    /\ Deserialized("deserializeInitialInvestment")
    /\ project.total = FromInt(99)
    /\ project.purchasePrice = Str("abc")
    /\ project.closingCosts = FromInt(2)
    /\ project.renovationCosts = Zero
    /\ project.otherUpfrontExpenses = Undefined
    /\ returned.purchasePrice = Zero
    /\ returned.total = FromInt(2)

\* C20 as stated: for every project built with the factory functions,
\* deserializeProject(serializeProject(p)) equals p in every field.
C20_RoundTrip ==
    Deserialized("deserializeProject") => returned = project

\* no cash-flow entry has period 0 and the holding period is not 0
NonZeroPeriods(p) ==
    /\ p.saleProceeds.holdingPeriod # 0
    /\ \A i \in 1..Len(p.cashFlows.items) : p.cashFlows.items[i].period # 0

\* C20 amended: for every project built with the factory functions whose
\* periods and holding period are not 0, deserializeProject(serializeProject(p))
\* equals p in every field except that an absent description comes back as ''.
C20_RoundTripButAbsentDescription ==
    (Deserialized("deserializeProject") /\ NonZeroPeriods(project)) =>
        returned =
            [project EXCEPT !.description = IF @ = Undefined THEN Str("") ELSE @]

\* a project with a description, two cash-flow entries and both results set
C20_Witness ==
    /\ Deserialized("deserializeProject")
    /\ NonZeroPeriods(project)
    /\ project.description = Str("d")
    /\ Len(project.cashFlows.items) = 2
    /\ project.calculatedIRR # Undefined
    /\ project.calculatedNPV # Undefined
    /\ project.initialInvestment.total # Zero
    /\ project.updatedAt # project.createdAt
    /\ returned = project

\* ---------------------------------------------------------------------------
\* Store actions and ProjectStorage
\* ---------------------------------------------------------------------------

StoreActionNames == { "createProject", "updateProject", "deleteProject" }

\* the step is a store action whose storage operation threw
StorageThrewInStep ==
    /\ lastCall'.op \in StoreActionNames
    /\ lastCall'.threw # Null

\* C16: when the storage operation throws during createProject, updateProject
\* or deleteProject, the action rejects with that error, error holds its
\* message, isLoading is false, and projects and currentProject are what they
\* were before the action started.
C16_FailureLeavesStateUnchanged ==
    [][StorageThrewInStep =>
          /\ lastCall'.rejected = lastCall'.threw
          /\ error' = Str(lastCall'.threw.message)
          /\ isLoading' = FALSE
          /\ projects' = projects
          /\ currentProject' = currentProject]_vars

\* the step is a successful deleteProject(id) of the store
DeleteSucceededInStep ==
    /\ lastCall'.op = "deleteProject"
    /\ lastCall'.threw = Null

\* C17: a successful deleteProject(id) removes from projects exactly the
\* projects whose id is id, sets currentProject to null when the current
\* project's id is id, and leaves currentProject unchanged otherwise.
C17_DeleteRemovesExactlyId ==
    [][DeleteSucceededInStep =>
          /\ projects' = SelectSeq(projects, LAMBDA p : p.val.id # lastCall'.id)
          /\ (currentProject # Null /\ currentProject.val.id = lastCall'.id)
                 => currentProject' = Null
          /\ ~(currentProject # Null /\ currentProject.val.id = lastCall'.id)
                 => currentProject' = currentProject]_vars

\* a held project other than the current one has been deleted, and the current
\* project is still there
C17_Witness ==
    /\ lastCall.op = "deleteProject"
    /\ lastCall.threw = Null
    /\ lastCall.held
    /\ currentProject # Null
    /\ currentProject.val.id # lastCall.id
    /\ Len(projects) = 1

\* the ids of the stored list, in order
StoredIds(stored) ==
    IF stored = Null THEN << >>
    ELSE [i \in 1..Len(stored.items) |-> stored.items[i].id]

OnePerId(ids) == \A i, j \in 1..Len(ids) : ids[i] = ids[j] => i = j

IndexOfId(ids, id) == CHOOSE i \in 1..Len(ids) : ids[i] = id

HasId(ids, id) == \E i \in 1..Len(ids) : ids[i] = id

\* the entries other than id's are the same, in the same order
OthersKept(before, after, id) ==
    SelectSeq(after, LAMBDA d : d.id # id) = SelectSeq(before, LAMBDA d : d.id # id)

StoredItems(stored) == IF stored = Null THEN << >> ELSE stored.items

\* the step is a saveProject that returned
SaveReturnedInStep ==
    /\ lastCall'.storageOp = "saveProject"
    /\ lastCall'.threw = Null

\* the step is a ProjectStorage.deleteProject that returned
DeleteReturnedInStep ==
    /\ lastCall'.storageOp = "deleteProject"
    /\ lastCall'.threw = Null

\* saveProject replaces in place or appends; deleteProject removes only id's entry
StoredListSteps ==
    /\ SaveReturnedInStep =>
          /\ StoredIds(localStorage') =
                 IF HasId(StoredIds(localStorage), lastCall'.id)
                 THEN StoredIds(localStorage)
                 ELSE Append(StoredIds(localStorage), lastCall'.id)
          /\ OthersKept(StoredItems(localStorage), StoredItems(localStorage'),
                        lastCall'.id)
    /\ DeleteReturnedInStep =>
          StoredItems(localStorage') =
              SelectSeq(StoredItems(localStorage), LAMBDA d : d.id # lastCall'.id)

\* deleteProject(id) does not throw when no entry has that id
DeleteOfAbsentReturns ==
    \A id \in Ids :
        ~HasId(StoredIds(localStorage), id)
            => deleteProject(localStorage, id, "ok").threw = Null

\* the version read back: an absent description is read as the empty string
ReadBack(version) ==
    IF version = Null THEN Null
    ELSE [version EXCEPT
             !.description = IF @ = Undefined THEN Str("") ELSE @]

EvaluatingAtRate == pc = "newton"

\* C21: for every series and every initialGuess other than -1, calculateIRR
\* never evaluates NPV or its derivative at a rate of exactly -1.
C21_NeverEvaluatesAtMinusOne ==
    (EvaluatingAtRate /\ initialGuess # FromInt(-1)) => rate # FromInt(-1)

(***************************************************************************)
(* projectToCashFlowArray: the unit of the series                          *)
(***************************************************************************)
\* monthly if at least one entry is monthly, annual otherwise
TargetUnit(items) ==
    IF \E i \in 1..Len(items) : items[i].periodType = "monthly"
    THEN "monthly" ELSE "annual"

\* the last period an entry reaches in a series of the given unit
LastPeriodIn(cf, unit) ==
    IF cf.periodType = "annual" /\ unit = "monthly" THEN cf.period * 12
    ELSE IF cf.periodType = "monthly" /\ unit = "annual" THEN -((-cf.period) \div 12)
    ELSE cf.period

\* the holding period of a sale in a series of the given unit
HoldingIn(sale, unit) ==
    IF sale.holdingPeriodType = "months" /\ unit = "annual"
    THEN -((-sale.holdingPeriod) \div 12)
    ELSE IF sale.holdingPeriodType = "years" /\ unit = "monthly"
    THEN sale.holdingPeriod * 12
    ELSE sale.holdingPeriod

MaxOf(S) == IF S = {} THEN 0 ELSE CHOOSE x \in S : \A y \in S : y <= x

\* the last index of the series of project p laid out in the given unit
LastIndexIn(p, unit) ==
    MaxOf({ LastPeriodIn(p.cashFlows.items[i], unit) : i \in 1..Len(p.cashFlows.items) }
          \cup { HoldingIn(p.saleProceeds, unit) })

ContributesToMonth(cf, q) ==
    IF cf.periodType = "monthly" THEN cf.period = q
    ELSE (cf.period - 1) * 12 + 1 <= q /\ q <= (cf.period - 1) * 12 + 12

\* what it contributes
MonthlyAmount(cf) ==
    IF cf.periodType = "monthly" THEN cf.netCashFlow
    ELSE Div(cf.netCashFlow, FromInt(12))

\* the contributions of the first n entries to month q, added up in order
RECURSIVE MonthTotal(_, _, _)
MonthTotal(entries, q, n) ==
    IF n = 0 THEN Zero
    ELSE IF ContributesToMonth(entries[n], q)
    THEN Add(MonthTotal(entries, q, n - 1), MonthlyAmount(entries[n]))
    ELSE MonthTotal(entries, q, n - 1)

\* the regular cash flow of month q of project p: the contributions of its
\* entries taken by increasing period
RegularMonth(p, q) ==
    MonthTotal(SortByPeriod(p.cashFlows.items), q, Len(p.cashFlows.items))

\* month q of the series of project p, the sale included
ExpectedMonth(p, q) ==
    IF q = HoldingIn(p.saleProceeds, "monthly")
    THEN Add(RegularMonth(p, q), p.saleProceeds.netProceeds)
    ELSE RegularMonth(p, q)

HasAnnualEntry(items) == \E i \in 1..Len(items) : items[i].periodType = "annual"

\* C23: when the target unit is monthly, an annual entry of period p contributes
\* netCashFlow/12 to each of the months (p-1)*12+1 .. (p-1)*12+12 and to no
\* other, added to what monthly and other annual entries contribute there.
C23_AnnualEntrySpreadOverItsYear ==
    (/\ SeriesBuilt
     /\ TargetUnit(project.cashFlows.items) = "monthly"
     /\ HasAnnualEntry(project.cashFlows.items))
        => \A q \in 1..(Len(built.items) - 1) :
               built.items[q + 1] = ExpectedMonth(project, q)

\* an annual entry for year 1 and a monthly entry for month 2, the sale after 2
\* years: month 1 holds a twelfth, month 2 the twelfth and the monthly entry,
\* month 13 nothing
C23_Witness ==
    /\ SeriesBuilt
    /\ Len(project.cashFlows.items) = 2
    /\ project.cashFlows.items[1].periodType = "annual"
    /\ project.cashFlows.items[1].period = 1
    /\ project.cashFlows.items[1].netCashFlow = FromInt(25)
    /\ project.cashFlows.items[2].periodType = "monthly"
    /\ project.cashFlows.items[2].period = 2
    /\ project.cashFlows.items[2].netCashFlow = FromInt(-30)
    /\ project.saleProceeds.holdingPeriodType = "years"
    /\ project.saleProceeds.holdingPeriod = 2
    /\ built.items[2] = Div(FromInt(25), FromInt(12))
    /\ built.items[3] = Add(Div(FromInt(25), FromInt(12)), FromInt(-30))
    /\ built.items[13] = Div(FromInt(25), FromInt(12))
    /\ built.items[14] = Zero

(***************************************************************************)
(* projectToCashFlowArray: the place of the sale                           *)
(***************************************************************************)
\* the series of project p were its sale to bring nothing
SeriesWithoutSale(p) ==
    projectToCashFlowArray(p.initialInvestment, p.cashFlows,
                           [p.saleProceeds EXCEPT !.netProceeds = Zero]).items

\* the sale is placed at period h of the series, and nowhere else
SalePlacedAt(series, p, h) ==
    /\ h + 1 <= Len(series)
    /\ Len(series) = Len(SeriesWithoutSale(p))
    /\ \A q \in 0..(Len(series) - 1) :
           (series[q + 1] # SeriesWithoutSale(p)[q + 1]) <=> (q = h)

\* C24: the sale's holding period is converted to the target unit before the
\* sale is placed: holdingPeriod * 12 for a monthly target and a holding period
\* in years, ceil(holdingPeriod / 12) for an annual target and a holding period
\* in months, unchanged when the units match.
C24_HoldingPeriodConverted ==
    SeriesBuilt =>
        SalePlacedAt(built.items, project,
            IF TargetUnit(project.cashFlows.items) = "monthly"
            THEN IF project.saleProceeds.holdingPeriodType = "years"
                 THEN project.saleProceeds.holdingPeriod * 12
                 ELSE project.saleProceeds.holdingPeriod
            ELSE IF project.saleProceeds.holdingPeriodType = "months"
                 THEN -((-project.saleProceeds.holdingPeriod) \div 12)
                 ELSE project.saleProceeds.holdingPeriod)

\* an annual schedule and a sale after 13 months: the sale is in year 2
C24_Witness ==
    /\ SeriesBuilt
    /\ Len(project.cashFlows.items) = 1
    /\ project.cashFlows.items[1].periodType = "annual"
    /\ project.cashFlows.items[1].period = 1
    /\ project.saleProceeds.holdingPeriodType = "months"
    /\ project.saleProceeds.holdingPeriod = LongHolding
    /\ Len(built.items) = 3
    /\ built.items[3] = project.saleProceeds.netProceeds

(***************************************************************************)
(* projectToCashFlowArray: the sale added to the regular cash flow         *)
(***************************************************************************)
\* the regular cash flow of period q of project p in a series of the given
\* unit: the contributions of its entries taken by increasing period
RegularAt(p, unit, q) ==
    IF unit = "monthly" THEN RegularMonth(p, q)
    ELSE SumAtPeriod(SortByPeriod(p.cashFlows.items), q, Len(p.cashFlows.items))

\* period q is the holding period of the sale, converted to the given unit
IsHoldingPeriod(q, sale, unit) ==
    LET half == "holdingPeriodHalf" \in DOMAIN sale
    IN  IF sale.holdingPeriodType = "months" /\ unit = "annual"
        THEN q = -((-(sale.holdingPeriod + (IF half THEN 1 ELSE 0))) \div 12)
        ELSE IF sale.holdingPeriodType = "years" /\ unit = "monthly"
        THEN q = sale.holdingPeriod * 12 + (IF half THEN 6 ELSE 0)
        ELSE ~half /\ q = sale.holdingPeriod

\* the series of project p has the sale at period h on top of the regular cash
\* flow, and the regular cash flow at every other period
SaleOnTopAt(series, p, unit, h) ==
    /\ IsHoldingPeriod(h, p.saleProceeds, unit)
    /\ series[h + 1] = Add(RegularAt(p, unit, h), p.saleProceeds.netProceeds)
    /\ \A q \in 1..(Len(series) - 1) :
           q # h => series[q + 1] = RegularAt(p, unit, q)

\* C25: for every positive holding period, converted to the target unit, index
\* holdingPeriod of the series exists, series[holdingPeriod] is the regular
\* cash flow of that period plus netProceeds, and every other index keeps its
\* regular cash flow, the periods after the holding period included.
C25_SaleAddedAtHoldingPeriod ==
    SeriesBuilt =>
        \E h \in 1..(Len(built.items) - 1) :
            SaleOnTopAt(built.items, project,
                        TargetUnit(project.cashFlows.items), h)

(***************************************************************************)
(* projectToCashFlowArray: what the series adds up to                      *)
(***************************************************************************)
\* netCashFlow added up over the first n entries of a schedule
RECURSIVE NetTotal(_, _)
NetTotal(items, n) ==
    IF n = 0 THEN Zero ELSE Add(NetTotal(items, n - 1), items[n].netCashFlow)

\* -initialInvestment.total + the netCashFlow of every entry + netProceeds
MoneyIn(p) ==
    Add(Add(Neg(p.initialInvestment.total),
            NetTotal(p.cashFlows.items, Len(p.cashFlows.items))),
        p.saleProceeds.netProceeds)

\* C26: for every valid input (positive integer periods, a positive holding
\* period, any mix of monthly and annual entries) the entries of the series add
\* up to -initialInvestment.total + the sum of netCashFlow over the entries +
\* saleProceeds.netProceeds.
C26_MoneyConserved ==
    SeriesBuilt => PlainSum(built.items, Len(built.items)) = MoneyIn(project)

(***************************************************************************)
(* projectToCashFlowArray: monthly entries                                 *)
(***************************************************************************)
\* the branch that aggregates a monthly entry into a year is taken for cf
AggregatedIntoYear(cf, items) == ~SomeMonthly(items) /\ cf.periodType = "monthly"

\* the monthly entry cf of project p is in the series at its own month, and
\* not at the year ceil(period / 12) unless that is its month
KeepsOwnMonth(series, p, cf) ==
    LET year == -((-cf.period) \div 12)
    IN  /\ cf.period + 1 <= Len(series)
        /\ series[cf.period + 1] = ExpectedMonth(p, cf.period)
        /\ ContributesToMonth(cf, cf.period)
        /\ year # cf.period =>
               /\ series[year + 1] = ExpectedMonth(p, year)
               /\ ~ContributesToMonth(cf, year)

ReorderedBuilt ==
    /\ pc = "done"
    /\ call = "projectToCashFlowArray reordered"

\* the entries of a schedule that contribute to period q of its series
ContributorsTo(items, q) ==
    { i \in 1..Len(items) :
        IF TargetUnit(items) = "monthly" THEN ContributesToMonth(items[i], q)
        ELSE items[i].period = q }

\* no period of the series gets contributions from more than two entries
AtMostTwoPerPeriod(items, series) ==
    \A q \in 1..(Len(series) - 1) : Cardinality(ContributorsTo(items, q)) <= 2

\* the caller's list is in the order it was passed in
ListLeftInOrder == returned.listAfter = returned.reordered

\* C28 as stated: the series does not depend on the order of the entries of
\* cashFlows, any permutation of the same entries gives the same series, and
\* the caller's list is left in its original order.
C28_OrderIndependent ==
    ReorderedBuilt => (returned.series = built /\ ListLeftInOrder)

\* C28 amended: the caller's list is left in its original order, and any
\* permutation gives the same series when no period gets contributions from
\* more than two entries.
C28_OrderIndependentUpToTwoPerPeriod ==
    ReorderedBuilt =>
        /\ ListLeftInOrder
        /\ AtMostTwoPerPeriod(project.cashFlows.items, built.items)
               => returned.series = built

\* three entries, the first for a later period than the others, passed in
\* another order and left in it; no period gets more than two contributions
C28_Witness ==
    /\ ReorderedBuilt
    /\ Len(project.cashFlows.items) = 3
    /\ returned.reordered # project.cashFlows.items
    /\ returned.listAfter # SortByPeriod(returned.listAfter)
    /\ AtMostTwoPerPeriod(project.cashFlows.items, built.items)
    /\ \E q \in 1..(Len(built.items) - 1) :
           Cardinality(ContributorsTo(project.cashFlows.items, q)) = 2
    /\ returned.series = built

\* ---- C29, C30: the store's list, its current project and storage ----

ListIds == { projects[i].val.id : i \in 1..Len(projects) }

CurrentIsListed == currentProject = Null \/ currentProject.val.id \in ListIds

\* the step is setCurrentProject with an id that is not in the list
SetCurrentOfAbsentInStep ==
    /\ lastCall'.op = "setCurrentProject"
    /\ lastCall' # lastCall \/ currentProject' # currentProject \/ error' # error
    /\ lastCall'.id \notin ListIds

\* C29: after any sequence of store actions, succeeding or failing,
\* currentProject is null or has the id of a project of the projects list, and
\* setCurrentProject with an id that is not in the list leaves currentProject
\* unchanged and sets the error field.
C29_CurrentProjectIsListed ==
    /\ [](CurrentIsListed)
    /\ [][SetCurrentOfAbsentInStep =>
             /\ currentProject' = currentProject
             /\ error' # Null]_vars

\* setCurrentProject was called with an id that is not in the list while a
\* project was current, after initializeStore replaced the list's objects
C29_Witness ==
    /\ lastCall.op = "setCurrentProject"
    /\ lastCall.id \notin ListIds
    /\ error = Str("Project with ID not found")
    /\ currentProject # Null
    /\ currentProject.obj = DetachedObj(currentProject.val.id)
    /\ projects # << >>

PersistedIds == { StoredIds(localStorage)[i] : i \in 1..Len(StoredIds(localStorage)) }

InSync == ListIds = PersistedIds

\* the step is an initializeStore that succeeded
InitializedInStep ==
    /\ lastCall'.op = "initializeStore"
    /\ lastCall'.threw = Null

\* the step is one of the store's createProject, updateProject, deleteProject
StoreChangeInStep == lastCall'.op \in StoreActionNames

\* C30: after a successful initializeStore the ids of the projects list are
\* the ids held in storage, and every createProject, updateProject and
\* deleteProject of the store, succeeding or failing, with any project
\* argument, keeps the two sets equal.
C30_ListIdsEqualStoredIds ==
    [][/\ InitializedInStep => InSync'
       /\ (InSync /\ StoreChangeInStep) => InSync']_vars

====
